---- MODULE Spec2Model ----
(***************************************************************************)
(* Calory Diary: the aggregation and goal-synchronisation engine of the    *)
(* Google Apps Script (CaloryDiaryAutomation, version 2).                  *)
(*                                                                         *)
(* Representation of values                                                *)
(*  - text is a sequence of one-character strings, so that toLowerCase,    *)
(*    includes, split and parseFloat are computed on the characters;       *)
(*  - a number is a record [nan, m]: nan says it is NaN, m is the value in *)
(*    thousandths (350 kcal is m = 350000);                                *)
(*  - an instant (a JavaScript Date) is a number of hours since the epoch, *)
(*    a DateKey 'yyyy-MM-dd' is the number of its calendar day, and a time *)
(*    zone is its offset from UTC in hours.                                *)
(***************************************************************************)
EXTENDS Integers, Sequences, FiniteSets, TLC

(***************************************************************************)
(* Text                                                                    *)
(***************************************************************************)
UpperChars == <<"A", "B", "C", "D", "E", "F", "G", "H", "I", "J", "K", "L", "M",
                "N", "O", "P", "Q", "R", "S", "T", "U", "V", "W", "X", "Y", "Z">>

LowerChars == <<"a", "b", "c", "d", "e", "f", "g", "h", "i", "j", "k", "l", "m",
                "n", "o", "p", "q", "r", "s", "t", "u", "v", "w", "x", "y", "z">>

DigitChars == <<"0", "1", "2", "3", "4", "5", "6", "7", "8", "9">>

\* one character of String.prototype.toLowerCase
LowerChar(c) ==
    IF \E i \in 1..Len(UpperChars) : UpperChars[i] = c
    THEN LowerChars[CHOOSE i \in 1..Len(UpperChars) : UpperChars[i] = c]
    ELSE c

\* String.prototype.toLowerCase
toLowerCase(s) == [i \in 1..Len(s) |-> LowerChar(s[i])]

\* String.prototype.includes
includes(s, sub) ==
    \E i \in 0..(Len(s) - Len(sub)) : SubSeq(s, i + 1, i + Len(sub)) = sub

\* text.split(' ')[0]: the text before the first space, or all of it
splitFirst(s) ==
    IF \E i \in 1..Len(s) : s[i] = " "
    THEN SubSeq(s, 1, (CHOOSE i \in 1..Len(s) :
                          s[i] = " " /\ \A j \in 1..(i - 1) : s[j] # " ") - 1)
    ELSE s

(***************************************************************************)
(* Numbers                                                                 *)
(***************************************************************************)
NaN == [nan |-> TRUE, m |-> 0]

Number(milli) == [nan |-> FALSE, m |-> milli]

\* JavaScript truthiness of a number: NaN and 0 are falsy
Truthy(n) == ~n.nan /\ n.m # 0

IsDigit(c) == \E i \in 1..Len(DigitChars) : DigitChars[i] = c

DigitValue(c) == (CHOOSE i \in 1..Len(DigitChars) : DigitChars[i] = c) - 1

\* the first index at or after i whose character is not a digit
RECURSIVE DigitsEnd(_, _)
DigitsEnd(s, i) ==
    IF i <= Len(s) /\ IsDigit(s[i]) THEN DigitsEnd(s, i + 1) ELSE i

\* the first index at or after i whose character is not white space
RECURSIVE SkipSpace(_, _)
SkipSpace(s, i) ==
    IF i <= Len(s) /\ s[i] = " " THEN SkipSpace(s, i + 1) ELSE i

\* the value of the digits s[i..j-1] read as a decimal integer
RECURSIVE IntOf(_, _, _)
IntOf(s, i, j) ==
    IF j <= i THEN 0 ELSE 10 * IntOf(s, i, j - 1) + DigitValue(s[j - 1])

\* the digits s[i..j-1] read as a decimal fraction, in thousandths
MilliOf(s, i, j) ==
    LET d(k) == IF i + k < j THEN DigitValue(s[i + k]) ELSE 0
    IN  100 * d(0) + 10 * d(1) + d(2)

\* parseFloat on text: leading white space, optional sign, digits, optional
\* fraction; NaN when no digit is found; trailing characters are ignored
parseFloatText(s) ==
    LET i0      == SkipSpace(s, 1)
        signed  == i0 <= Len(s) /\ s[i0] \in {"+", "-"}
        neg     == i0 <= Len(s) /\ s[i0] = "-"
        i1      == IF signed THEN i0 + 1 ELSE i0
        intEnd  == DigitsEnd(s, i1)
        hasDot  == intEnd <= Len(s) /\ s[intEnd] = "."
        fracEnd == IF hasDot THEN DigitsEnd(s, intEnd + 1) ELSE intEnd
        nDigits == (intEnd - i1) + (IF hasDot THEN fracEnd - intEnd - 1 ELSE 0)
        abs     == 1000 * IntOf(s, i1, intEnd)
                   + (IF hasDot THEN MilliOf(s, intEnd + 1, fracEnd) ELSE 0)
    IN  IF nDigits = 0 THEN NaN
        ELSE Number(IF neg THEN 0 - abs ELSE abs)

\* the decimal digits of a natural number
RECURSIVE DigitsOf(_)
DigitsOf(k) ==
    IF k < 10 THEN <<DigitChars[k + 1]>>
    ELSE DigitsOf(k \div 10) \o <<DigitChars[(k % 10) + 1]>>

\* the fraction f thousandths as text: nothing when it is zero, otherwise
\* the point and the digits without trailing zeros
FractionText(f) ==
    IF f = 0 THEN <<>>
    ELSE IF f % 10 # 0
    THEN <<".", DigitChars[(f \div 100) + 1], DigitChars[((f \div 10) % 10) + 1],
           DigitChars[(f % 10) + 1]>>
    ELSE IF f % 100 # 0
    THEN <<".", DigitChars[(f \div 100) + 1], DigitChars[((f \div 10) % 10) + 1]>>
    ELSE <<".", DigitChars[(f \div 100) + 1]>>

\* `${number}` in a template literal: 'NaN', or the sign, the integer
\* digits and the fraction
NumberText(n) ==
    IF n.nan THEN <<"N", "a", "N">>
    ELSE LET abs == IF n.m < 0 THEN 0 - n.m ELSE n.m
         IN  (IF n.m < 0 THEN <<"-">> ELSE <<>>)
             \o DigitsOf(abs \div 1000) \o FractionText(abs % 1000)

(***************************************************************************)
(* Cell values: what Range.getValue() returns.  A numeric cell is a        *)
(* number, a text cell (a dropdown label, free text, or the empty cell,    *)
(* which reads as the empty text) is text, a date cell is a Date.          *)
(***************************************************************************)
NumCell(milli) == [t |-> "num", n |-> Number(milli), s |-> <<>>, at |-> 0]

TextCell(chars) == [t |-> "text", n |-> NaN, s |-> chars, at |-> 0]

\* a date cell reads as a Date object: the instant at
DateCell(instant) == [t |-> "date", n |-> NaN, s |-> <<>>, at |-> instant]

EmptyCell == TextCell(<<>>)

\* parseFloat(cell value): a number is converted to its decimal text and
\* parsed back, which yields the number
parseFloat(v) == IF v.t = "num" THEN v.n ELSE parseFloatText(v.s)

\* cell.toString().includes('('): the text of a number has no parenthesis
cellIncludesParen(v) == v.t = "text" /\ includes(v.s, <<"(">>)

\* parseFloat(cell.toString().split(' ')[0])
parseFloatFirstToken(v) ==
    IF v.t = "num" THEN v.n ELSE parseFloatText(splitFirst(v.s))

\* JavaScript truthiness of a cell value
TruthyCell(v) ==
    CASE v.t = "num"  -> Truthy(v.n)
      [] v.t = "text" -> Len(v.s) > 0
      [] OTHER        -> TRUE

(***************************************************************************)
(* Outcome of a function call: it returns a value or throws an error.      *)
(***************************************************************************)
Return(v) == [ok |-> TRUE, err |-> "none", val |-> v]

Throw(e) == [ok |-> FALSE, err |-> e, val |-> NaN]

(***************************************************************************)
(* getMaxCaloriesFromDashboard: Mifflin-St Jeor BMR, TDEE, rounded goal.   *)
(* The profile is the record of the cells H2..H7 of the Dashboard.         *)
(***************************************************************************)
\* gender.includes('male') || gender === 'm'
IsMaleBranch(gender) ==
    includes(gender, <<"m", "a", "l", "e">>) \/ gender = <<"m">>

\* the constant the BMR formula adds for the gender text of cell H2
SexConstant(genderCell) ==
    IF IsMaleBranch(toLowerCase(genderCell.s)) THEN 5 ELSE 0 - 161

\* if (!weight || !height || !age || !activityMultiplier) throw
MissingMetrics(weight, height, age, activityMultiplier) ==
    ~Truthy(weight) \/ ~Truthy(height) \/ ~Truthy(age) \/ ~Truthy(activityMultiplier)

\* the activity multiplier read from cell H6
ActivityOf(cell) ==
    IF cellIncludesParen(cell) THEN parseFloatFirstToken(cell) ELSE parseFloat(cell)

\* the goal offset read from cell H7; only the plain branch falls back to 0
GoalOffsetOf(cell) ==
    IF cellIncludesParen(cell) THEN parseFloatFirstToken(cell)
    ELSE IF Truthy(parseFloat(cell)) THEN parseFloat(cell) ELSE Number(0)

\* the BMR in units of 1/4000 kcal: 10*weight + 6.25*height - 5*age + c
Bmr4000(w, h, a, c) == 40 * w.m + 25 * h.m - 20 * a.m + 4000 * c

\* a variant that truncates instead of rounding to the nearest integer
RoundGoal_Truncate(bmr4k, act, off) ==
    LET bi == bmr4k \div 4000
        bf == bmr4k % 4000
        q  == (bi * act) \div 1000
        r  == (bi * act) % 1000
        oi == off \div 1000
        of == off % 1000
    IN  q + oi + ((4000 * r + bf * act + 4000 * of) \div 4000000)

\* Math.round(bmr * activityMultiplier + goalOffset) = floor(x + 1/2), on
\* exact values; bmr4k in 1/4000, act and off in thousandths.  The product
\* is split so that no intermediate value leaves the 32-bit range.
RoundGoal(bmr4k, act, off) ==
    LET bi == bmr4k \div 4000
        bf == bmr4k % 4000
        q  == (bi * act) \div 1000
        r  == (bi * act) % 1000
        oi == off \div 1000
        of == off % 1000
    IN  q + oi + ((4000 * r + bf * act + 4000 * of + 2000000) \div 4000000)

getMaxCaloriesFromDashboard(dashboard, p) ==
    IF ~dashboard THEN Throw("Dashboard sheet not found")
    ELSE LET weight == parseFloat(p.weight)
             height == parseFloat(p.height)
             age    == parseFloat(p.age)
             activityMultiplier == ActivityOf(p.activity)
             goalOffset == GoalOffsetOf(p.goalOffset)
         IN  IF MissingMetrics(weight, height, age, activityMultiplier)
             THEN Throw("Missing required personal metrics")
             ELSE IF goalOffset.nan THEN Return(NaN)
             ELSE Return(Number(1000 * RoundGoal(
                      Bmr4000(weight, height, age, SexConstant(p.gender)),
                      activityMultiplier.m, goalOffset.m)))

(***************************************************************************)
(* Sample texts                                                            *)
(***************************************************************************)
T_Male   == <<"M", "a", "l", "e">>
T_Female == <<"F", "e", "m", "a", "l", "e">>
T_MALE   == <<"M", "A", "L", "E">>
T_female == <<"f", "e", "m", "a", "l", "e">>
T_m      == <<"m">>
T_f      == <<"f">>
T_abc    == <<"a", "b", "c">>
T_Moderate  == <<"1", ".", "5", "5", " ", "(", "M", "o", "d", "e", "r", "a", "t", "e", ")">>
T_Sedentary == <<"1", ".", "2", " ", "(", "S", "e", "d", "e", "n", "t", "a", "r", "y", ")">>
T_WeightLoss == <<"-", "5", "0", "0", " ", "(", "W", "e", "i", "g", "h", "t", " ", "L", "o", "s", "s", ")">>
T_Maintenance == <<"0", " ", "(", "M", "a", "i", "n", "t", "e", "n", "a", "n", "c", "e", ")">>
T_BadLabel == <<"(", "n", "o", "n", "e", ")">>
T_UnderGoal == <<"U", "n", "d", "e", "r", " ", "G", "o", "a", "l">>
T_OverGoal  == <<"O", "v", "e", "r", " ", "G", "o", "a", "l">>
T_Status    == <<"S", "t", "a", "t", "u", "s">>

ReferenceProfile ==
    [gender |-> TextCell(T_Male), weight |-> NumCell(70000), height |-> NumCell(175000),
     age |-> NumCell(30000), activity |-> TextCell(T_Moderate),
     goalOffset |-> TextCell(T_WeightLoss)]


(***************************************************************************)
(* Dates                                                                   *)
(***************************************************************************)
\* Utilities.formatDate(date, timeZone, 'yyyy-MM-dd'): the calendar day of
\* the instant on the clock of the time zone
formatDate(instant, zone) == (instant + zone) \div 24

\* new Date('yyyy-MM-dd'): a date-only text is read as midnight UTC
newDateOfKey(dateKey) == 24 * dateKey

\* the instant a date typed into a sheet cell stands for: midnight of that
\* day on the clock of the spreadsheet, whose zone is the script's
LocalMidnight(day, zone) == 24 * day - zone

\* new Date(cell value) and !isNaN(getTime()): a Date is copied; the texts
\* of the model are not dates and give an invalid Date
newDate(v) == [valid |-> v.t = "date", at |-> v.at]

(***************************************************************************)
(* computeDailyTotalsFromLog.  The Log sheet is its header row and the     *)
(* sequence log of its data rows [date, calories]; the result is the       *)
(* object dailyTotalsMap as the sequence of its [key, total] entries in    *)
(* insertion order, the order Object.entries enumerates.                   *)
(***************************************************************************)
\* a variant that does not look at the date of the row
RowSkipped_DateUnchecked(row) ==
    ~TruthyCell(row.calories) /\ ~(row.calories.t = "num" /\ row.calories.n.m = 0)

\* if (!dateValue || (!caloriesValue && caloriesValue !== 0)) continue
\* if (isNaN(entryDate.getTime())) continue
RowSkipped(row) ==
    \/ ~TruthyCell(row.date)
    \/ (~TruthyCell(row.calories) /\ ~(row.calories.t = "num" /\ row.calories.n.m = 0))
    \/ ~newDate(row.date).valid

\* parseFloat(caloriesValue) || 0
CaloriesOf(row) ==
    IF Truthy(parseFloat(row.calories)) THEN parseFloat(row.calories).m ELSE 0

HasKey(totals, key) == \E i \in 1..Len(totals) : totals[i].key = key

\* dailyTotalsMap[dateKey] += calories, the key created at 0 when absent
AddToTotals(totals, key, calories) ==
    IF HasKey(totals, key)
    THEN [i \in 1..Len(totals) |->
            IF totals[i].key = key
            THEN [key |-> key, total |-> totals[i].total + calories]
            ELSE totals[i]]
    ELSE Append(totals, [key |-> key, total |-> calories])

\* the loop over the data rows, from row i on
RECURSIVE TotalsLoop(_, _, _, _)
TotalsLoop(rows, i, zone, totals) ==
    IF i > Len(rows) THEN totals
    ELSE IF RowSkipped(rows[i]) THEN TotalsLoop(rows, i + 1, zone, totals)
    ELSE TotalsLoop(rows, i + 1, zone,
                    AddToTotals(totals, formatDate(newDate(rows[i].date).at, zone),
                                CaloriesOf(rows[i])))

\* what the function returns when the sheet has no data row: the statement
\* is 'return' followed by a line break, so the value is undefined
EmptyLogResult == [undefined |-> TRUE, totals |-> <<>>]

computeDailyTotalsFromLog(logExists, rows, zone) ==
    IF ~logExists THEN Throw("Log sheet not found")
    ELSE IF 1 + Len(rows) <= 1 THEN Return(EmptyLogResult)
    ELSE Return([undefined |-> FALSE, totals |-> TotalsLoop(rows, 1, zone, <<>>)])

(***************************************************************************)
(* upsertDailySummary.  The Daily Summary sheet is the sequence of its     *)
(* rows, row 1 first; getLastRow() is its length.                          *)
(***************************************************************************)
HeaderRow ==
    [kind |-> "header", date |-> 0, total |-> NaN, limit |-> NaN,
     status |-> T_Status, color |-> "header"]

\* maxCalories - totalCalories
Remaining(maxCalories, total) ==
    IF maxCalories.nan THEN NaN ELSE Number(maxCalories.m - total)

\* remaining >= 0, which is false for NaN
NonNegative(remaining) == ~remaining.nan /\ remaining.m >= 0

\* a variant that classifies a remaining of 0 as over the goal
StatusText_ZeroIsOver(remaining) ==
    IF ~remaining.nan /\ remaining.m > 0
    THEN T_UnderGoal \o <<" ", "(", "+">> \o NumberText(remaining) \o <<")">>
    ELSE T_OverGoal \o <<" ", "(">> \o NumberText(remaining) \o <<")">>

\* `Under Goal (+${remaining})` or `Over Goal (${remaining})`
StatusText(remaining) ==
    IF NonNegative(remaining)
    THEN T_UnderGoal \o <<" ", "(", "+">> \o NumberText(remaining) \o <<")">>
    ELSE T_OverGoal \o <<" ", "(">> \o NumberText(remaining) \o <<")">>

StatusColor(remaining) == IF NonNegative(remaining) THEN "green" ELSE "red"

\* rowData = [dateObj, totalCalories, maxCalories, status], with the colour
RowData(dateKey, total, maxCalories) ==
    [kind |-> "data", date |-> newDateOfKey(dateKey), total |-> Number(total),
     limit |-> maxCalories,
     status |-> StatusText(Remaining(maxCalories, total)),
     color |-> StatusColor(Remaining(maxCalories, total))]

\* the DateKey the lookup gives to a stored row
RowKey(row, zone) == formatDate(row.date, zone)

\* a variant that forgets the 1-based row numbering of the sheet
ExistingRow_ZeroBased(existingData, zone, dateKey) ==
    LET hits == {i \in 2..Len(existingData) : RowKey(existingData[i], zone) = dateKey}
    IN  IF hits = {} THEN 0 ELSE (CHOOSE i \in hits : \A j \in hits : j <= i) - 1

\* existingDatesMap[dateKey]: built from rows 2.. of the data read at the
\* start, a later row replacing an earlier one with the same key; 0 if absent
ExistingRow(existingData, zone, dateKey) ==
    LET hits == {i \in 2..Len(existingData) : RowKey(existingData[i], zone) = dateKey}
    IN  IF hits = {} THEN 0 ELSE CHOOSE i \in hits : \A j \in hits : j <= i

\* a variant that clears the rows below the header before the first write
WriteRow_ClearFirst(rows, existingData, zone, entry, maxCalories) ==
    LET data == RowData(entry.key, entry.total, maxCalories)
    IN  IF rows = existingData
        THEN Append(SubSeq(rows, 1, IF Len(rows) >= 1 THEN 1 ELSE 0), data)
        ELSE Append(rows, data)

\* one iteration of the loop: update the row found, or append after the
\* last row
WriteRow(rows, existingData, zone, entry, maxCalories) ==
    LET rowNum == ExistingRow(existingData, zone, entry.key)
        data   == RowData(entry.key, entry.total, maxCalories)
    IN  IF rowNum # 0 THEN [rows EXCEPT ![rowNum] = data]
        ELSE Append(rows, data)

\* the loop over Object.entries(dailyTotalsMap) from entry j on; failAt = k
\* > 0 says that the k-th setValues call of the run throws
RECURSIVE UpsertLoop(_, _, _, _, _, _, _)
UpsertLoop(rows, existingData, zone, totals, j, maxCalories, failAt) ==
    IF j > Len(totals) THEN [ok |-> TRUE, err |-> "none", rows |-> rows]
    ELSE IF j = failAt THEN [ok |-> FALSE, err |-> "write failed", rows |-> rows]
    ELSE UpsertLoop(WriteRow(rows, existingData, zone, totals[j], maxCalories),
                    existingData, zone, totals, j + 1, maxCalories, failAt)

\* a variant that inserts the missing sheet instead of throwing
upsertDailySummary_AutoCreate(sheetExists, rows, zone, dailyTotalsMap, maxCalories, failAt) ==
    IF dailyTotalsMap.undefined
    THEN [ok |-> FALSE, err |-> "TypeError", exists |-> TRUE, rows |-> rows]
    ELSE LET r == UpsertLoop(rows, rows, zone, dailyTotalsMap.totals, 1,
                             maxCalories, failAt)
         IN  [ok |-> r.ok, err |-> r.err, exists |-> TRUE, rows |-> r.rows]

upsertDailySummary(sheetExists, rows, zone, dailyTotalsMap, maxCalories, failAt) ==
    IF ~sheetExists
    THEN [ok |-> FALSE, err |-> "Daily Summary sheet not found",
          exists |-> FALSE, rows |-> rows]
    ELSE IF dailyTotalsMap.undefined
    THEN [ok |-> FALSE, err |-> "TypeError", exists |-> TRUE, rows |-> rows]
    ELSE LET r == UpsertLoop(rows, rows, zone, dailyTotalsMap.totals, 1,
                             maxCalories, failAt)
         IN  [ok |-> r.ok, err |-> r.err, exists |-> TRUE, rows |-> r.rows]

(***************************************************************************)
(* Bounds and input domains                                                *)
(***************************************************************************)
MaxLog == 2

MaxRows == 3

\* script time zones: west of UTC, UTC, east of UTC
TimeZones == {0 - 5, 0, 7}

VARIABLES
    tz,            \* Session.getScriptTimeZone(), as an offset in hours
    dashboard,     \* the Dashboard sheet exists
    logSheet,      \* the Log sheet exists
    summarySheet,  \* the Daily Summary sheet exists
    profile,       \* the cells H2..H7 of the Dashboard
    log,           \* the data rows of the Log sheet
    summary,       \* the rows of the Daily Summary sheet
    tracker,       \* the cells A2..D2 of the Dashboard
    goal,          \* the outcome of the last getMaxCaloriesFromDashboard call
    run,           \* the last handler: what it did and what its caller saw
    sw,            \* the service worker of the web app, its caches and the network
    exec,          \* the onEdit executions in progress: where each one is, what it read
    dailyTotalsMap, \* the value of the last computeDailyTotalsFromLog call, in binary64
    server         \* the web app: its process, its sheets client, its last request

vars == <<tz, dashboard, logSheet, summarySheet, profile, log, summary, tracker, goal,
          run, sw, exec, dailyTotalsMap, server>>

\* the variables of the spreadsheet and its script
sheetVars == <<tz, dashboard, logSheet, summarySheet, profile, log, summary, tracker, goal, run>>

\* no response yet
NoResponse == [method |-> "none", origin |-> "none", path |-> <<>>,
               source |-> "none", version |-> 0]

\* the browser before the service worker is installed: both caches empty,
\* no cache of another name, the network up, the server content at version
\* 0, nothing requested yet
SwStart ==
    [online |-> TRUE, version |-> 0, staticCache |-> {}, dynamicCache |-> {},
     pages |-> {}, submitted |-> 0, offline |-> {}, delivered |-> {},
     last |-> NoResponse, attempted |-> {}, otherCaches |-> {}, deleted |-> {},
     active |-> FALSE]

\* the web app before startServer has run: no sheets client, not listening,
\* no request handled
ServerStart ==
    [phase |-> "starting", sheets |-> FALSE, exitCode |-> 0, listened |-> FALSE,
     route |-> "none", status |-> 0, called |-> FALSE, wrote |-> FALSE,
     refreshCalls |-> 0, refreshFailed |-> FALSE, nullClient |-> FALSE,
     body |-> <<>>]

\* the onEdit executions that the model follows step by step
Executions == {1, 2}

\* no execution has started
NoExecutions ==
    [p \in Executions |->
        [pc |-> "idle", maxCalories |-> NaN, totals |-> <<>>, existingData |-> <<>>,
         j |-> 0, lastRow |-> 0]]

\* new Date() inside a handler: noon of day 2 on the script's clock
Now == LocalMidnight(2, tz) + 12

\* the rows that the model enters into the Log sheet: dates typed as dates
\* (day 1 is yesterday, day 2 today), calories typed as numbers, or as the text 'abc'
LogRowInputs ==
    {[date |-> DateCell(LocalMidnight(1, tz)), calories |-> NumCell(300000)],
     [date |-> DateCell(LocalMidnight(2, tz)), calories |-> NumCell(300000)],
     [date |-> DateCell(LocalMidnight(2, tz)), calories |-> NumCell(1800000)],
     [date |-> DateCell(LocalMidnight(1, tz)), calories |-> TextCell(T_abc)]}

\* rows without a usable date: the date cell is empty, or holds a text that
\* is no date; and a row of today whose calories are the text 'abc'
DirtyRowInputs ==
    {[date |-> EmptyCell, calories |-> NumCell(300000)],
     [date |-> TextCell(T_abc), calories |-> NumCell(300000)],
     [date |-> DateCell(LocalMidnight(2, tz)), calories |-> TextCell(T_abc)]}

\* the edits of a profile cell that the model makes
ProfileEdits ==
    {<<"weight", NumCell(70000)>>, <<"weight", NumCell(80000)>>}

\* a profile whose weight cell is empty
InvalidProfile == [ReferenceProfile EXCEPT !.weight = EmptyCell]

EmptyTracker ==
    [date |-> 0, total |-> NaN, limit |-> NaN, status |-> <<>>, color |-> "none"]

NotComputed == Throw("not computed")

(***************************************************************************)
(* updateDashboardTodayView: the new content of the tracker cells          *)
(***************************************************************************)
\* the placeholder shown when the Daily Summary has no row for today
Placeholder(now, maxCalories) ==
    [date |-> now, total |-> Number(0), limit |-> maxCalories,
     status |-> T_UnderGoal \o <<" ", "(", "+">> \o NumberText(maxCalories) \o <<")">>,
     color |-> "green"]

\* the tracker cells copied from the row of today; the colour is chosen
\* from the status text
FromRow(row) ==
    [date |-> row.date, total |-> row.total, limit |-> row.limit,
     status |-> row.status,
     color |-> IF includes(row.status, T_UnderGoal) THEN "green" ELSE "red"]

updateDashboardTodayView(dashExists, sheetExists, rows, p, zone, now, old) ==
    IF ~dashExists \/ ~sheetExists THEN old
    ELSE LET todayKey == formatDate(now, zone)
             hits == {i \in 2..Len(rows) : RowKey(rows[i], zone) = todayKey}
             maxCalories == getMaxCaloriesFromDashboard(dashExists, p)
         IN  IF hits # {}
             THEN FromRow(rows[CHOOSE i \in hits : \A j \in hits : i <= j])
             ELSE IF ~maxCalories.ok THEN old
             ELSE Placeholder(now, maxCalories.val)

(***************************************************************************)
(* The pipeline of refreshCaloryDiary and of the profile branch of onEdit: *)
(* goal, totals, upsert, today view.  logsCount says that the number of    *)
(* keys of the totals is logged between the aggregation and the upsert     *)
(* (refreshCaloryDiary does, onEdit does not); failAt = k > 0 says that    *)
(* the k-th write of the upsert throws.  The result is the state the run   *)
(* leaves and whether an error ended it.                                   *)
(***************************************************************************)
Aborted(e, g, rows, exists) ==
    [aborted |-> TRUE, err |-> e, today |-> FALSE, goal |-> g, rows |-> rows,
     exists |-> exists, tracker |-> tracker]

\* a variant in which the placeholder of the today view is written to the
\* Daily Summary sheet as well
UpsertAndView_PersistPlaceholder(p, totals, maxCalories, failAt) ==
    CHOOSE res \in
        { IF ~up.ok THEN Aborted(up.err, maxCalories, up.rows, up.exists)
          ELSE [aborted |-> FALSE, err |-> "none", today |-> TRUE,
                goal |-> maxCalories,
                rows |-> IF \E i \in 2..Len(up.rows) :
                               RowKey(up.rows[i], tz) = formatDate(Now, tz)
                         THEN up.rows
                         ELSE Append(up.rows, RowData(formatDate(Now, tz), 0,
                                                      maxCalories.val)),
                exists |-> up.exists,
                tracker |-> updateDashboardTodayView(dashboard, up.exists, up.rows,
                                                     p, tz, Now, tracker)]
          : up \in {upsertDailySummary(summarySheet, summary, tz, totals.val,
                                       maxCalories.val, failAt)} } : TRUE

\* the steps after getMaxCaloriesFromDashboard and computeDailyTotalsFromLog
\* have returned maxCalories and totals
UpsertAndView(p, totals, maxCalories, failAt) ==
    CHOOSE res \in
        { IF ~up.ok THEN Aborted(up.err, maxCalories, up.rows, up.exists)
          ELSE [aborted |-> FALSE, err |-> "none", today |-> TRUE,
                goal |-> maxCalories, rows |-> up.rows, exists |-> up.exists,
                tracker |-> updateDashboardTodayView(dashboard, up.exists, up.rows,
                                                     p, tz, Now, tracker)]
          : up \in {upsertDailySummary(summarySheet, summary, tz, totals.val,
                                       maxCalories.val, failAt)} } : TRUE

\* a variant whose aggregation reads only the last row of the log
Pipeline_ChangedRowOnly(logsCount, p, lg, failAt) ==
    CHOOSE res \in
        { IF ~maxCalories.ok
          THEN Aborted(maxCalories.err, maxCalories, summary, summarySheet)
          ELSE IF ~totals.ok
          THEN Aborted(totals.err, maxCalories, summary, summarySheet)
          ELSE IF logsCount /\ totals.val.undefined
          THEN Aborted("TypeError", maxCalories, summary, summarySheet)
          ELSE UpsertAndView(p, totals, maxCalories, failAt)
          : maxCalories \in {getMaxCaloriesFromDashboard(dashboard, p)},
            totals \in {computeDailyTotalsFromLog(logSheet,
                            IF lg = <<>> THEN lg ELSE <<lg[Len(lg)]>>, tz)} } : TRUE

Pipeline(logsCount, p, lg, failAt) ==
    CHOOSE res \in
        { IF ~maxCalories.ok
          THEN Aborted(maxCalories.err, maxCalories, summary, summarySheet)
          ELSE IF ~totals.ok
          THEN Aborted(totals.err, maxCalories, summary, summarySheet)
          ELSE IF logsCount /\ totals.val.undefined
          THEN Aborted("TypeError", maxCalories, summary, summarySheet)
          ELSE UpsertAndView(p, totals, maxCalories, failAt)
          : maxCalories \in {getMaxCaloriesFromDashboard(dashboard, p)},
            totals \in {computeDailyTotalsFromLog(logSheet, lg, tz)} } : TRUE

\* the record of a handler that ran the pipeline; reported is what the
\* caller of the handler is told
RunRecord(res, reported) ==
    [ran |-> TRUE, aborted |-> res.aborted, err |-> res.err,
     today |-> res.today, reported |-> reported]

\* the record of a handler that did not run the pipeline
NoRun(reported) ==
    [ran |-> FALSE, aborted |-> FALSE, err |-> "none", today |-> FALSE,
     reported |-> reported]

\* the effect of a pipeline run on the sheets
Apply(res) ==
    /\ Len(res.rows) <= MaxRows
    /\ summary' = res.rows
    /\ summarySheet' = res.exists
    /\ tracker' = res.tracker
    /\ goal' = res.goal

\* the sheets a spreadsheet may have when the script is installed: the
\* Daily Summary sheet is missing, empty, or set up with its header row
InitSheets ==
    /\ tz \in TimeZones
    /\ dashboard \in BOOLEAN
    /\ logSheet \in BOOLEAN
    /\ summarySheet \in BOOLEAN
    /\ summary \in (IF summarySheet THEN {<<>>, <<HeaderRow>>} ELSE {<<>>})
    /\ log = <<>>
    /\ tracker = EmptyTracker
    /\ goal = NotComputed
    /\ run = NoRun("none")
    /\ sw = SwStart
    /\ exec = NoExecutions
    /\ dailyTotalsMap = <<>>
    /\ server = ServerStart

Init ==
    /\ InitSheets
    /\ profile = ReferenceProfile

(***************************************************************************)
(* Handlers                                                                *)
(***************************************************************************)
\* onEdit after a row was added to the Log sheet: refreshCaloryDiary
OnEditLogAppend ==
    \E row \in LogRowInputs :
        /\ logSheet
        /\ Len(log) < MaxLog
        /\ log' = Append(log, row)
        /\ \E res \in {Pipeline(TRUE, profile, log', 0)} :
              Apply(res) /\ run' = RunRecord(res, "none")
        /\ UNCHANGED <<server, exec, dailyTotalsMap, sw, tz, dashboard, logSheet,
                       profile>>

\* onEdit after the date or the calories of a Log row were changed
OnEditLogChange ==
    \E i \in 1..Len(log), row \in LogRowInputs :
        /\ logSheet
        /\ (row.date = log[i].date) # (row.calories = log[i].calories)
        /\ log' = [log EXCEPT ![i] = row]
        /\ \E res \in {Pipeline(TRUE, profile, log', 0)} :
              Apply(res) /\ run' = RunRecord(res, "none")
        /\ UNCHANGED <<server, exec, dailyTotalsMap, sw, tz, dashboard, logSheet,
                       profile>>

\* onEdit after one of the cells H2..H7 of the Dashboard was changed
OnEditProfile ==
    \E e \in ProfileEdits :
        /\ dashboard
        /\ profile[e[1]] # e[2]
        /\ profile' = [profile EXCEPT ![e[1]] = e[2]]
        /\ \E res \in {Pipeline(FALSE, profile', log, 0)} :
              Apply(res) /\ run' = RunRecord(res, "none")
        /\ UNCHANGED <<server, exec, dailyTotalsMap, sw, tz, dashboard, logSheet,
                       log>>

\* refreshCaloryDiary from the menu or from onOpen: errors are only logged
RefreshCaloryDiary ==
    /\ \E res \in {Pipeline(TRUE, profile, log, 0)} :
              Apply(res) /\ run' = RunRecord(res, "none")
    /\ UNCHANGED <<server, exec, dailyTotalsMap, sw, tz, dashboard, logSheet, profile,
                   log>>

\* setupDailySummarySheet: insert the sheet if it is missing, write row 1
setupDailySummarySheet ==
    /\ summarySheet' = TRUE
    /\ summary' = IF Len(summary) = 0 THEN <<HeaderRow>>
                  ELSE [summary EXCEPT ![1] = HeaderRow]
    /\ run' = NoRun("setup complete")
    /\ UNCHANGED <<server, exec, dailyTotalsMap, sw, tz, dashboard, logSheet, profile,
                   log, tracker, goal>>

Next ==
    \/ OnEditLogAppend
    \/ OnEditLogChange
    \/ OnEditProfile
    \/ RefreshCaloryDiary
    \/ setupDailySummarySheet

\* the engine under serial triggers, every store access succeeding
Spec == Init /\ [][Next]_vars

(***************************************************************************)
(* Store failures: a write of the upsert loop may throw                    *)
(***************************************************************************)
\* refreshCaloryDiary in which the failAt-th setValues call throws
RefreshWriteFails ==
    \E failAt \in 1..MaxLog :
        /\ \E res \in {Pipeline(TRUE, profile, log, failAt)} :
              /\ res.err = "write failed"
              /\ Apply(res)
              /\ run' = RunRecord(res, "none")
        /\ UNCHANGED <<server, exec, dailyTotalsMap, sw, tz, dashboard, logSheet,
                       profile, log>>

NextIO == Next \/ RefreshWriteFails

\* the engine when writes to the store may fail
SpecIO == Init /\ [][NextIO]_vars

(***************************************************************************)
(* The callers of refreshCaloryDiary and what they are told                *)
(***************************************************************************)
\* manualRefresh: refreshCaloryDiary, then the alert 'has been refreshed!'
manualRefresh ==
    /\ \E res \in {Pipeline(TRUE, profile, log, 0)} :
              Apply(res) /\ run' = RunRecord(res, "refreshed")
    /\ UNCHANGED <<server, exec, dailyTotalsMap, sw, tz, dashboard, logSheet, profile,
                   log>>

\* doGet with action refresh: refreshCaloryDiary, then {success: true}
DoGetRefresh ==
    /\ \E res \in {Pipeline(TRUE, profile, log, 0)} :
              Apply(res) /\ run' = RunRecord(res, "success")
    /\ UNCHANGED <<server, exec, dailyTotalsMap, sw, tz, dashboard, logSheet, profile,
                   log>>

\* doGet with action status: {success: true}; with an unknown action:
\* {success: false}
DoGetOther ==
    \E known \in BOOLEAN :
        /\ run' = NoRun(IF known THEN "success" ELSE "failure")
        /\ UNCHANGED <<server, exec, dailyTotalsMap, sw, tz, dashboard, logSheet,
                       summarySheet, profile, log, summary, tracker, goal>>

InitCallers ==
    /\ InitSheets
    /\ profile \in {ReferenceProfile, InvalidProfile}

NextCallers ==
    \/ OnEditLogAppend
    \/ RefreshCaloryDiary
    \/ manualRefresh
    \/ DoGetRefresh
    \/ DoGetOther
    \/ setupDailySummarySheet

\* the entry points that report to a caller
SpecCallers == InitCallers /\ [][NextCallers]_vars

(***************************************************************************)
(* Every trigger of the pipeline: a Log edit, a profile edit, doGet with   *)
(* the action refresh, the menu refresh                                    *)
(***************************************************************************)
NextTriggers ==
    \/ OnEditLogAppend
    \/ OnEditLogChange
    \/ OnEditProfile
    \/ DoGetRefresh
    \/ manualRefresh

SpecTriggers == Init /\ [][NextTriggers]_vars

(***************************************************************************)
(* Edits that onEdit does not classify                                     *)
(***************************************************************************)
\* onEdit after an edit of the Daily Summary sheet, or of a Dashboard cell
\* outside H2..H7: neither branch is taken and nothing runs
OnEditOther ==
    /\ run' = NoRun("none")
    /\ UNCHANGED <<server, exec, dailyTotalsMap, sw, tz, dashboard, logSheet,
                   summarySheet, profile, log, summary, tracker, goal>>

NextEdits ==
    \/ OnEditLogAppend
    \/ OnEditProfile
    \/ OnEditOther

\* the edit events delivered to onEdit
SpecEdits == Init /\ [][NextEdits]_vars

(***************************************************************************)
(* Dirty historical data: rows without a date or without numeric calories  *)
(***************************************************************************)
\* onEdit after a row without a usable date or calories was added to the Log
OnEditDirtyRow ==
    \E row \in DirtyRowInputs :
        /\ logSheet
        /\ Len(log) < MaxLog
        /\ log' = Append(log, row)
        /\ \E res \in {Pipeline(TRUE, profile, log', 0)} :
              Apply(res) /\ run' = RunRecord(res, "none")
        /\ UNCHANGED <<server, exec, dailyTotalsMap, sw, tz, dashboard, logSheet,
                       profile>>

\* a spreadsheet that was set up: the three sheets and the header row
InitSetUp ==
    /\ InitSheets
    /\ dashboard /\ logSheet /\ summarySheet
    /\ summary = <<HeaderRow>>
    /\ profile = ReferenceProfile

NextDirty ==
    \/ OnEditLogAppend
    \/ OnEditDirtyRow
    \/ RefreshCaloryDiary

\* entries of every kind added to the log of a spreadsheet that was set up
SpecDirty == InitSetUp /\ [][NextDirty]_vars

(***************************************************************************)
(* One day of tracking: meals of today and of yesterday, goals of either   *)
(* sign                                                                    *)
(***************************************************************************)
\* a profile of the dropdown lists whose goal is negative: round(380 * 1.2 - 500)
LowProfile ==
    [gender |-> TextCell(T_Male), weight |-> NumCell(20000), height |-> NumCell(100000),
     age |-> NumCell(90000), activity |-> TextCell(T_Sedentary),
     goalOffset |-> TextCell(T_WeightLoss)]

DayProfiles == {ReferenceProfile, LowProfile}

\* meals of today (day 2), and one of yesterday
DayRowInputs ==
    {[date |-> DateCell(LocalMidnight(2, tz)), calories |-> NumCell(1600000)],
     [date |-> DateCell(LocalMidnight(2, tz)), calories |-> NumCell(2300000)],
     [date |-> DateCell(LocalMidnight(2, tz)), calories |-> NumCell(456000)],
     [date |-> DateCell(LocalMidnight(2, tz)), calories |-> NumCell(457000)],
     [date |-> DateCell(LocalMidnight(2, tz)), calories |-> NumCell(500)],
     [date |-> DateCell(LocalMidnight(1, tz)), calories |-> NumCell(1600000)]}

\* onEdit after a meal was added to the Log sheet: refreshCaloryDiary
OnEditDayRow ==
    \E row \in DayRowInputs :
        /\ logSheet
        /\ Len(log) < MaxLog
        /\ log' = Append(log, row)
        /\ \E res \in {Pipeline(TRUE, profile, log', 0)} :
              Apply(res) /\ run' = RunRecord(res, "none")
        /\ UNCHANGED <<server, exec, dailyTotalsMap, sw, tz, dashboard, logSheet,
                       profile>>

InitDay ==
    /\ InitSheets
    /\ dashboard /\ logSheet /\ summarySheet
    /\ summary = <<HeaderRow>>
    /\ profile \in DayProfiles

NextDay ==
    \/ OnEditDayRow
    \/ RefreshCaloryDiary

SpecDay == InitDay /\ [][NextDay]_vars

(***************************************************************************)
(* The service worker of the web app.  A URL is its origin ("self" for the *)
(* app, "cdn" for an external host) and its path, the sequence of the      *)
(* segments between the slashes: '/' is <<>>, '/api/log' is <<"api",       *)
(* "log">>.  The content the server would send has a version number; a     *)
(* response is where it came from and the version it carries.              *)
(***************************************************************************)
MaxVersion == 1

MaxEntries == 2

Url(origin, path) == [origin |-> origin, path |-> path]

\* STATIC_ASSETS: assets of the app and external resources, no page
STATIC_ASSETS ==
    {Url("self", <<"css", "style.css">>), Url("self", <<"manifest.json">>),
     Url("cdn", <<"npm", "chart.js">>)}

DYNAMIC_PAGES == {<<>>, <<"log">>, <<"summary">>, <<"settings">>}

\* url.pathname.startsWith('/api/')
IsApi(path) == Len(path) >= 2 /\ path[1] = "api"

\* DYNAMIC_PAGES.includes(url.pathname) || url.pathname === '/'
IsDynamicPage(path) == path \in DYNAMIC_PAGES \/ path = <<>>

\* STATIC_ASSETS.includes(url.pathname): the entries of external resources
\* are full URLs, which no pathname equals
IsStaticAssetPath(path) == Url("self", path) \in STATIC_ASSETS

\* the GET requests that the pages of the model make
GetRequests ==
    {Url("self", <<>>), Url("self", <<"log">>), Url("self", <<"api", "log">>),
     Url("self", <<"css", "style.css">>), Url("self", <<"journal">>),
     Url("cdn", <<"npm", "chart.js">>)}

\* caches.match(request): the cached entries for the URL
cachesMatch(s, req) ==
    {c \in s.staticCache : c.origin = req.origin /\ c.path = req.path}

\* cache.put(request, response): the entry for the URL is replaced
cachePut(cache, req, version) ==
    {c \in cache : ~(c.origin = req.origin /\ c.path = req.path)}
        \cup {[origin |-> req.origin, path |-> req.path, version |-> version]}

Response(req, source, version) ==
    [method |-> "GET", origin |-> req.origin, path |-> req.path,
     source |-> source, version |-> version]

\* the outcome of the fetch listener: the response and the static cache
Handled(s, req, source, version, cache) ==
    [last |-> Response(req, source, version), staticCache |-> cache]

\* a variant that serves every request from the cache first and stores the
\* pages it fetched, as the cache-first strategy does
fetchListener_CacheFirst(s, req) ==
    IF cachesMatch(s, req) # {}
    THEN Handled(s, req, "cache", (CHOOSE c \in cachesMatch(s, req) : TRUE).version,
                 s.staticCache)
    ELSE IF ~s.online THEN Handled(s, req, "error", 0, s.staticCache)
    ELSE IF IsApi(req.path)
    THEN Handled(s, req, "network", s.version, s.staticCache)
    ELSE Handled(s, req, "network", s.version, cachePut(s.staticCache, req, s.version))

\* the fetch listener on a GET request for an http(s) URL
fetchListener(s, req) ==
    IF IsApi(req.path)
    THEN \* event.respondWith(fetch(request))
         IF s.online THEN Handled(s, req, "network", s.version, s.staticCache)
         ELSE Handled(s, req, "error", 0, s.staticCache)
    ELSE IF IsDynamicPage(req.path)
    THEN \* network first; the cache, then the 'Offline' page, when it fails
         IF s.online THEN Handled(s, req, "network", s.version, s.staticCache)
         ELSE IF cachesMatch(s, req) # {}
         THEN Handled(s, req, "cache",
                      (CHOOSE c \in cachesMatch(s, req) : TRUE).version, s.staticCache)
         ELSE Handled(s, req, "offline", 0, s.staticCache)
    ELSE \* cache first; a fetched static asset or external resource is stored
         IF cachesMatch(s, req) # {}
         THEN Handled(s, req, "cache",
                      (CHOOSE c \in cachesMatch(s, req) : TRUE).version, s.staticCache)
         ELSE IF ~s.online THEN Handled(s, req, "error", 0, s.staticCache)
         ELSE IF IsStaticAssetPath(req.path) \/ req.origin # "self"
         THEN Handled(s, req, "network", s.version,
                      cachePut(s.staticCache, req, s.version))
         ELSE Handled(s, req, "network", s.version, s.staticCache)

\* the install event: cache.addAll(STATIC_ASSETS), which stores nothing
\* when a fetch fails
SwInstall ==
    /\ sw.online
    /\ sw' = [sw EXCEPT
                 !.staticCache =
                     {[origin |-> u.origin, path |-> u.path, version |-> sw.version]
                         : u \in STATIC_ASSETS}
                     \cup {c \in sw.staticCache :
                              Url(c.origin, c.path) \notin STATIC_ASSETS},
                 !.last = [NoResponse EXCEPT !.method = "INSTALL"]]
    /\ UNCHANGED <<server, sheetVars, exec, dailyTotalsMap>>

\* a page or a script of a page requests a URL with GET
FetchGet(req) ==
    /\ \E h \in {fetchListener(sw, req)} :
          sw' = [sw EXCEPT
                    !.last = h.last,
                    !.staticCache = h.staticCache,
                    !.pages = IF h.last.source = "network" /\ IsDynamicPage(req.path)
                              THEN sw.pages \cup {req.path} ELSE sw.pages]
    /\ UNCHANGED <<server, sheetVars, exec, dailyTotalsMap>>

SwFetchGet == \E req \in GetRequests : FetchGet(req)

\* the log page submits a food entry with POST /api/log: the fetch listener
\* returns at once for a method other than GET, and the browser sends the
\* request itself, which fails when the network is down
SwFetchPost ==
    /\ sw.submitted < MaxEntries
    /\ sw' = [sw EXCEPT
                 !.submitted = sw.submitted + 1,
                 !.delivered = IF sw.online THEN sw.delivered \cup {sw.submitted + 1}
                               ELSE sw.delivered,
                 !.offline = IF sw.online THEN sw.offline
                             ELSE sw.offline \cup {sw.submitted + 1},
                 !.last = [method |-> "POST", origin |-> "self",
                           path |-> <<"api", "log">>,
                           source |-> IF sw.online THEN "network" ELSE "error",
                           version |-> 0]]
    /\ UNCHANGED <<server, sheetVars, exec, dailyTotalsMap>>

\* cache.keys() filtered to the POST /api/log requests: the entries of the
\* dynamic cache in the order they were stored, the lowest number first
RECURSIVE offlineEntries(_)
offlineEntries(entries) ==
    IF entries = {} THEN <<>>
    ELSE LET first == CHOOSE e \in entries : \A o \in entries : e <= o
         IN  <<first>> \o offlineEntries(entries \ {first})

\* a variant whose loop has no try block of its own: the first fetch that
\* fails ends the sync
RECURSIVE SyncLoop_StopAtFailure(_, _, _, _)
SyncLoop_StopAtFailure(requests, i, failing, acc) ==
    IF i > Len(requests) THEN acc
    ELSE IF requests[i] \in failing
    THEN [acc EXCEPT !.attempted = acc.attempted \cup {requests[i]}]
    ELSE SyncLoop_StopAtFailure(requests, i + 1, failing,
             [acc EXCEPT !.attempted = acc.attempted \cup {requests[i]},
                         !.delivered = acc.delivered \cup {requests[i]},
                         !.cache = acc.cache \ {requests[i]}])

\* for (const request of offlineEntries): fetch, then cache.delete; a fetch
\* that fails is logged and the loop goes on.  failing are the requests
\* whose fetch is rejected
RECURSIVE SyncLoop(_, _, _, _)
SyncLoop(requests, i, failing, acc) ==
    IF i > Len(requests) THEN acc
    ELSE IF requests[i] \in failing
    THEN SyncLoop(requests, i + 1, failing,
             [acc EXCEPT !.attempted = acc.attempted \cup {requests[i]}])
    ELSE SyncLoop(requests, i + 1, failing,
             [acc EXCEPT !.attempted = acc.attempted \cup {requests[i]},
                         !.delivered = acc.delivered \cup {requests[i]},
                         !.cache = acc.cache \ {requests[i]}])

\* the sync event with the tag 'food-entry-sync': syncFoodEntries sends the
\* POST /api/log requests found in the dynamic cache and deletes those
\* sent.  Every fetch fails while the network is down; any may fail while
\* it is up
syncFoodEntries ==
    /\ \E failing \in SUBSET sw.dynamicCache :
          /\ ~sw.online => failing = sw.dynamicCache
          /\ \E r \in {SyncLoop(offlineEntries(sw.dynamicCache), 1, failing,
                                 [attempted |-> {}, delivered |-> sw.delivered,
                                  cache |-> sw.dynamicCache])} :
                sw' = [sw EXCEPT
                          !.delivered = r.delivered,
                          !.dynamicCache = r.cache,
                          !.attempted = r.attempted,
                          !.last = [NoResponse EXCEPT !.method = "SYNC"]]
    /\ UNCHANGED <<server, sheetVars, exec, dailyTotalsMap>>

\* the network goes down or comes back
NetworkChange ==
    /\ sw' = [sw EXCEPT !.online = ~sw.online]
    /\ UNCHANGED <<server, sheetVars, exec, dailyTotalsMap>>

\* the data behind the pages changes on the server
ServerUpdate ==
    /\ sw.version < MaxVersion
    /\ sw' = [sw EXCEPT !.version = sw.version + 1]
    /\ UNCHANGED <<server, sheetVars, exec, dailyTotalsMap>>

InitSw ==
    /\ InitSheets
    /\ dashboard /\ logSheet /\ summarySheet
    /\ summary = <<HeaderRow>>
    /\ tz = 0
    /\ profile = ReferenceProfile

NextSw ==
    \/ SwInstall
    \/ SwFetchGet
    \/ SwFetchPost
    \/ syncFoodEntries
    \/ NetworkChange
    \/ ServerUpdate

SpecSw == InitSw /\ [][NextSw]_vars

(***************************************************************************)
(* The life cycle of the worker when it replaces the previous version:     *)
(* install, then activate, then the fetch events.  The cache storage of    *)
(* the origin holds the two current caches and otherCaches, the names of   *)
(* every other cache.                                                      *)
(***************************************************************************)
CACHE_NAME == "calorie-diary-v1.0.1"

STATIC_CACHE == "calorie-diary-static-v1.0.1"

DYNAMIC_CACHE == "calorie-diary-dynamic-v1.0.1"

\* the caches of the previous worker, which stored the pages as well, the
\* name CACHE_NAME that no code opens, and a cache of another script
OtherCacheNames ==
    {"calorie-diary-static-v1.0.0", "calorie-diary-dynamic-v1.0.0", CACHE_NAME,
     "workbox-precache"}

\* a variant that deletes the static caches of other versions only
activateListener_StaticOnly(cacheNames) ==
    {n \in cacheNames : ~(n \in {"calorie-diary-static-v1.0.0", CACHE_NAME})}

\* the names that caches.keys() still returns after the activate handler:
\* every name other than STATIC_CACHE and DYNAMIC_CACHE was deleted
activateListener(cacheNames) ==
    {n \in cacheNames : ~(n # STATIC_CACHE /\ n # DYNAMIC_CACHE)}

\* the activate event, which follows the install event
SwActivate ==
    /\ sw.last.method = "INSTALL"
    /\ \E kept \in {activateListener(sw.otherCaches \cup {STATIC_CACHE, DYNAMIC_CACHE})} :
          sw' = [sw EXCEPT
                    !.otherCaches = kept \ {STATIC_CACHE, DYNAMIC_CACHE},
                    !.deleted = sw.otherCaches \ kept,
                    !.staticCache = IF STATIC_CACHE \in kept THEN sw.staticCache ELSE {},
                    !.dynamicCache = IF DYNAMIC_CACHE \in kept THEN sw.dynamicCache ELSE {},
                    !.active = TRUE,
                    !.last = [NoResponse EXCEPT !.method = "ACTIVATE"]]
    /\ UNCHANGED <<server, sheetVars, exec, dailyTotalsMap>>

\* a fetch event, which the browser sends to an activated worker
SwFetchActive ==
    /\ sw.active
    /\ SwFetchGet

InitSwLife ==
    /\ tz = 0
    /\ dashboard = TRUE /\ logSheet = TRUE /\ summarySheet = TRUE
    /\ summary = <<HeaderRow>>
    /\ log = <<>>
    /\ tracker = EmptyTracker
    /\ goal = NotComputed
    /\ run = NoRun("none")
    /\ exec = NoExecutions
    /\ dailyTotalsMap = <<>>
    /\ server = ServerStart
    /\ profile = ReferenceProfile
    /\ \E others \in SUBSET OtherCacheNames :
          sw = [SwStart EXCEPT !.otherCaches = others]

NextSwLife ==
    \/ SwInstall
    \/ SwActivate
    \/ SwFetchActive
    \/ NetworkChange
    \/ ServerUpdate

SpecSwLife == InitSwLife /\ [][NextSwLife]_vars

(***************************************************************************)
(* The replay of queued entries.  The worker itself stores no request in   *)
(* the dynamic cache, so the queue that syncFoodEntries finds is an input: *)
(* the POST /api/log requests 1..MaxEntries, stored there before the sync. *)
(***************************************************************************)
InitSync ==
    /\ tz = 0
    /\ dashboard = TRUE /\ logSheet = TRUE /\ summarySheet = TRUE
    /\ summary = <<HeaderRow>>
    /\ log = <<>>
    /\ tracker = EmptyTracker
    /\ goal = NotComputed
    /\ run = NoRun("none")
    /\ exec = NoExecutions
    /\ dailyTotalsMap = <<>>
    /\ server = ServerStart
    /\ profile = ReferenceProfile
    /\ \E queued \in SUBSET (1..MaxEntries) :
          sw = [SwStart EXCEPT !.dynamicCache = queued, !.offline = queued,
                               !.submitted = MaxEntries]

NextSync ==
    \/ syncFoodEntries
    \/ NetworkChange
    \/ SwFetchGet

SpecSync == InitSync /\ [][NextSync]_vars

(***************************************************************************)
(* The goal calculator on its own, over a wider set of profiles            *)
(***************************************************************************)
CalcGenders == {T_Male, T_Female, T_MALE, T_female, T_m, T_f}

CalcWeights == {NumCell(70000), NumCell(0 - 70000), NumCell(0), EmptyCell, TextCell(T_abc)}

CalcHeights == {NumCell(175000), NumCell(0)}

CalcAges == {NumCell(30000), EmptyCell}

CalcActivities == {TextCell(T_Moderate), NumCell(1550), NumCell(0 - 1200), EmptyCell,
                   TextCell(T_BadLabel), NumCell(1600)}

\* with the BMR 1648.75 and the factor 1.6 the TDEE is 2638: the offsets
\* -2637.5 and -2640.5 give the ties 0.5 and -2.5
CalcOffsets == {TextCell(T_WeightLoss), NumCell(0 - 500000), NumCell(0),
                TextCell(T_BadLabel), TextCell(T_abc),
                NumCell(0 - 2637500), NumCell(0 - 2640500)}

InitCalc ==
    /\ tz = 0
    /\ dashboard \in BOOLEAN
    /\ logSheet = TRUE
    /\ summarySheet = TRUE
    /\ summary = <<HeaderRow>>
    /\ log = <<>>
    /\ tracker = EmptyTracker
    /\ goal = NotComputed
    /\ run = NoRun("none")
    /\ sw = SwStart
    /\ exec = NoExecutions
    /\ dailyTotalsMap = <<>>
    /\ server = ServerStart
    /\ \E g \in CalcGenders, w \in CalcWeights, h \in CalcHeights, a \in CalcAges,
          act \in CalcActivities, off \in CalcOffsets :
          profile = [gender |-> TextCell(g), weight |-> w, height |-> h, age |-> a,
                     activity |-> act, goalOffset |-> off]

\* one call of getMaxCaloriesFromDashboard on the current profile
ComputeGoal ==
    /\ goal = NotComputed
    /\ goal' = getMaxCaloriesFromDashboard(dashboard, profile)
    /\ UNCHANGED <<server, exec, dailyTotalsMap, sw, tz, dashboard, logSheet,
                   summarySheet, profile, log, summary, tracker, run>>

NextCalc == ComputeGoal

SpecCalc == InitCalc /\ [][NextCalc]_vars

(***************************************************************************)
(* Number arithmetic.  A JavaScript number is a binary64 floating-point    *)
(* value; a number that is not negative is +0 or 1.b2...b53 * 2^e, kept as *)
(* its exponent e and the sequence b of the 53 bits of its significand.    *)
(* The sums of whole numbers that the sheets of the other specifications   *)
(* hold are exact; the sums of decimal fractions are rounded.              *)
(***************************************************************************)
\* the number of bits of the significand
Precision == 53

Zeros(n) == [i \in 1..n |-> 0]

\* +0
Zero64 == [zero |-> TRUE, e |-> 0, b |-> <<>>]

RECURSIVE Pow2(_)
Pow2(n) == IF n = 0 THEN 1 ELSE 2 * Pow2(n - 1)

\* the next k bits of r / den after the binary point, and the remainder
RECURSIVE DivBits(_, _, _, _)
DivBits(r, den, k, acc) ==
    IF k = 0 THEN [bits |-> acc, rem |-> r]
    ELSE LET bit == IF 2 * r >= den THEN 1 ELSE 0
         IN  DivBits(2 * r - bit * den, den, k - 1, Append(acc, bit))

\* bits + 1 in the last place; carry says that the result needs one more bit
Increment(bits) ==
    LET zeros == {i \in 1..Len(bits) : bits[i] = 0}
    IN  IF zeros = {} THEN [carry |-> 1, bits |-> Zeros(Len(bits))]
        ELSE LET k == CHOOSE i \in zeros : \A j \in zeros : j <= i
             IN  [carry |-> 0,
                  bits |-> [i \in 1..Len(bits) |->
                               IF i < k THEN bits[i] ELSE IF i = k THEN 1 ELSE 0]]

\* round to nearest, ties to even: bits are the leading bits of a value
\* 1.xxx * 2^e; up says that what was cut off is above half of the last
\* place, tie that it is exactly half
Round64(e, bits, up, tie) ==
    IF up \/ (tie /\ bits[Len(bits)] = 1)
    THEN LET inc == Increment(bits)
         IN  IF inc.carry = 1
             THEN [zero |-> FALSE, e |-> e + 1,
                   b |-> <<1>> \o SubSeq(inc.bits, 1, Len(bits) - 1)]
             ELSE [zero |-> FALSE, e |-> e, b |-> inc.bits]
    ELSE [zero |-> FALSE, e |-> e, b |-> bits]

\* the number that a cell holding the decimal milli / 1000 gives to the
\* script: the binary64 value nearest to it, for milli >= 0
ToDouble(milli) ==
    IF milli = 0 THEN Zero64
    ELSE LET e == CHOOSE x \in (0 - 10)..21 :
                     IF x >= 0
                     THEN 1000 * Pow2(x) <= milli /\ milli < 2000 * Pow2(x)
                     ELSE 1000 <= milli * Pow2(0 - x) /\ milli * Pow2(0 - x) < 2000
             num == IF e >= 0 THEN milli ELSE milli * Pow2(0 - e)
             den == IF e >= 0 THEN 1000 * Pow2(e) ELSE 1000
             d   == DivBits(num - den, den, Precision - 1, <<1>>)
         IN  Round64(e, d.bits, 2 * d.rem > den, 2 * d.rem = den)

\* a + c for bit sequences of one length, from the last place on
RECURSIVE AddBits(_, _, _, _, _)
AddBits(a, c, i, carry, acc) ==
    IF i = 0 THEN [carry |-> carry, bits |-> acc]
    ELSE AddBits(a, c, i - 1, (a[i] + c[i] + carry) \div 2,
                 <<(a[i] + c[i] + carry) % 2>> \o acc)

\* x + y for numbers that are not negative: the exact sum, rounded
Add64(x, y) ==
    IF x.zero THEN y
    ELSE IF y.zero THEN x
    ELSE LET hi   == IF x.e >= y.e THEN x ELSE y
             lo   == IF x.e >= y.e THEN y ELSE x
             d    == hi.e - lo.e
             s    == AddBits(hi.b \o Zeros(d), Zeros(d) \o lo.b, Precision + d, 0, <<>>)
             all  == IF s.carry = 1 THEN <<1>> \o s.bits ELSE s.bits
             rest == SubSeq(all, Precision + 1, Len(all))
             half == Len(rest) >= 1 /\ rest[1] = 1
             more == \E i \in 2..Len(rest) : rest[i] = 1
         IN  Round64(hi.e + s.carry, SubSeq(all, 1, Precision),
                     half /\ more, half /\ ~more)

(***************************************************************************)
(* computeDailyTotalsFromLog on the numbers of the script                  *)
(***************************************************************************)
MaxSum == 3

\* meals with calories to one decimal place, at several times of the day
SumRowInputs ==
    {[date |-> DateCell(LocalMidnight(2, tz)), calories |-> NumCell(150300)],
     [date |-> DateCell(LocalMidnight(2, tz) + 20), calories |-> NumCell(220700)],
     [date |-> DateCell(LocalMidnight(2, tz) + 8), calories |-> NumCell(99100)],
     [date |-> DateCell(LocalMidnight(1, tz) + 23), calories |-> NumCell(200000)],
     [date |-> DateCell(LocalMidnight(2, tz)), calories |-> NumCell(200000)]}

\* dailyTotalsMap[dateKey] += calories, the key created at 0 when absent
AddToTotals64(totals, key, calories) ==
    IF HasKey(totals, key)
    THEN [i \in 1..Len(totals) |->
            IF totals[i].key = key
            THEN [key |-> key, total |-> Add64(totals[i].total, calories)]
            ELSE totals[i]]
    ELSE Append(totals, [key |-> key, total |-> Add64(Zero64, calories)])

\* the loop over the data rows, from row i on
RECURSIVE TotalsLoop64(_, _, _, _)
TotalsLoop64(rows, i, zone, totals) ==
    IF i > Len(rows) THEN totals
    ELSE IF RowSkipped(rows[i]) THEN TotalsLoop64(rows, i + 1, zone, totals)
    ELSE TotalsLoop64(rows, i + 1, zone,
                      AddToTotals64(totals, formatDate(newDate(rows[i].date).at, zone),
                                    ToDouble(CaloriesOf(rows[i]))))

\* a meal is added to the Log sheet and the totals of the log are computed
ComputeDailyTotals ==
    \E row \in SumRowInputs :
        /\ Len(log) < MaxSum
        /\ log' = Append(log, row)
        /\ dailyTotalsMap' = TotalsLoop64(log', 1, tz, <<>>)
        /\ UNCHANGED <<server, exec, sw, tz, dashboard, logSheet, summarySheet,
                       profile, summary, tracker, goal, run>>

NextSum == ComputeDailyTotals

SpecSum == InitSetUp /\ [][NextSum]_vars

(***************************************************************************)
(* Two executions of onEdit at the same time.  Apps Script starts one      *)
(* execution per edit and the script takes no lock, so the calls that the  *)
(* executions make to the spreadsheet interleave.  An execution goes       *)
(* through: sleep (the row is in the Log sheet, Utilities.sleep runs),     *)
(* goal, totals, loop (the Daily Summary was read), append (getLastRow     *)
(* was read), view, done.  The values and the colour of a row are written  *)
(* in one step.                                                            *)
(***************************************************************************)
\* two meals of today
RaceRowInputs ==
    {[date |-> DateCell(LocalMidnight(2, tz)), calories |-> NumCell(300000)],
     [date |-> DateCell(LocalMidnight(2, tz)), calories |-> NumCell(1800000)]}

\* the time zones in which a Daily Summary date keeps its DateKey
RaceZones == {0, 7}

Pc(p) == exec[p].pc

\* the execution p ends: the catch block of refreshCaloryDiary logs e
ExecEnds(p, aborted, e) ==
    /\ exec' = [exec EXCEPT ![p].pc = "done"]
    /\ run' = [ran |-> TRUE, aborted |-> aborted, err |-> e, today |-> ~aborted,
               reported |-> "none"]

\* the edit that starts execution p: the row is in the sheet, onEdit sleeps
ExecOnEdit ==
    \E p \in Executions, row \in RaceRowInputs :
        /\ Pc(p) = "idle"
        /\ logSheet
        /\ log' = Append(log, row)
        /\ exec' = [exec EXCEPT ![p].pc = "sleep"]
        /\ UNCHANGED <<server, dailyTotalsMap, sw, tz, dashboard, logSheet,
                       summarySheet, profile, summary, tracker, goal, run>>

\* refreshCaloryDiary: const maxCalories = getMaxCaloriesFromDashboard(...)
ExecGetMaxCalories ==
    \E p \in Executions :
        /\ Pc(p) = "sleep"
        /\ goal' = getMaxCaloriesFromDashboard(dashboard, profile)
        /\ IF goal'.ok
           THEN /\ exec' = [exec EXCEPT ![p].pc = "goal", ![p].maxCalories = goal'.val]
                /\ run' = run
           ELSE ExecEnds(p, TRUE, goal'.err)
        /\ UNCHANGED <<server, dailyTotalsMap, sw, tz, dashboard, logSheet,
                       summarySheet, profile, log, summary, tracker>>

\* const dailyTotalsMap = computeDailyTotalsFromLog(...), and the log line
\* that reads its keys
ExecComputeTotals ==
    \E p \in Executions :
        /\ Pc(p) = "goal"
        /\ \E totals \in {computeDailyTotalsFromLog(logSheet, log, tz)} :
              IF ~totals.ok THEN ExecEnds(p, TRUE, totals.err)
              ELSE IF totals.val.undefined THEN ExecEnds(p, TRUE, "TypeError")
              ELSE /\ exec' = [exec EXCEPT ![p].pc = "totals",
                                           ![p].totals = totals.val.totals]
                   /\ run' = run
        /\ UNCHANGED <<server, dailyTotalsMap, sw, tz, dashboard, logSheet,
                       summarySheet, profile, log, summary, tracker, goal>>

\* upsertDailySummary: existingData = summarySheet.getDataRange().getValues()
ExecReadExisting ==
    \E p \in Executions :
        /\ Pc(p) = "totals"
        /\ IF ~summarySheet THEN ExecEnds(p, TRUE, "Daily Summary sheet not found")
           ELSE /\ exec' = [exec EXCEPT ![p].pc = "loop", ![p].existingData = summary,
                                        ![p].j = 1]
                /\ run' = run
        /\ UNCHANGED <<server, dailyTotalsMap, sw, tz, dashboard, logSheet,
                       summarySheet, profile, log, summary, tracker, goal>>

\* one entry of the loop: setValues on the row found in existingData, or
\* getLastRow() when the key was not found; after the last entry the loop ends
ExecLoop ==
    \E p \in Executions :
        /\ Pc(p) = "loop"
        /\ LET e == exec[p]
           IN  IF e.j > Len(e.totals)
               THEN /\ exec' = [exec EXCEPT ![p].pc = "view"]
                    /\ summary' = summary
               ELSE IF ExistingRow(e.existingData, tz, e.totals[e.j].key) # 0
               THEN /\ summary' = WriteRow(summary, e.existingData, tz, e.totals[e.j],
                                           e.maxCalories)
                    /\ exec' = [exec EXCEPT ![p].j = e.j + 1]
               ELSE /\ exec' = [exec EXCEPT ![p].pc = "append",
                                            ![p].lastRow = Len(summary)]
                    /\ summary' = summary
        /\ UNCHANGED <<server, dailyTotalsMap, sw, tz, dashboard, logSheet,
                       summarySheet, profile, log, tracker, goal, run>>

\* getRange(lastRow + 1, 1, 1, 4).setValues([rowData]) and the colour
ExecAppend ==
    \E p \in Executions :
        /\ Pc(p) = "append"
        /\ LET e    == exec[p]
               data == RowData(e.totals[e.j].key, e.totals[e.j].total, e.maxCalories)
           IN  /\ summary' = IF e.lastRow + 1 <= Len(summary)
                             THEN [summary EXCEPT ![e.lastRow + 1] = data]
                             ELSE Append(summary, data)
               /\ exec' = [exec EXCEPT ![p].pc = "loop", ![p].j = e.j + 1]
        /\ UNCHANGED <<server, dailyTotalsMap, sw, tz, dashboard, logSheet,
                       summarySheet, profile, log, tracker, goal, run>>

\* updateDashboardTodayView(spreadsheet), the last step of the execution
ExecTodayView ==
    \E p \in Executions :
        /\ Pc(p) = "view"
        /\ tracker' = updateDashboardTodayView(dashboard, summarySheet, summary,
                                               profile, tz, Now, tracker)
        /\ ExecEnds(p, FALSE, "none")
        /\ UNCHANGED <<server, dailyTotalsMap, sw, tz, dashboard, logSheet,
                       summarySheet, profile, log, summary, goal>>

InitRace ==
    /\ InitSetUp
    /\ tz \in RaceZones

NextRace ==
    \/ ExecOnEdit
    \/ ExecGetMaxCalories
    \/ ExecComputeTotals
    \/ ExecReadExisting
    \/ ExecLoop
    \/ ExecAppend
    \/ ExecTodayView

SpecRace == InitRace /\ [][NextRace]_vars

(***************************************************************************)
(* The web app: server.js and services/googleSheets.js.  It writes to the  *)
(* same spreadsheet through the Sheets API.  A field of a request body is  *)
(* a value like a cell value, or undefined when the body has no such       *)
(* field.  Whether a call of the Sheets API succeeds is an input.          *)
(***************************************************************************)
T_Lunch == <<"L", "u", "n", "c", "h">>

T_Zero == <<"0">>

\* a field that the request body does not have
Undefined == [t |-> "undefined", n |-> NaN, s |-> <<>>, at |-> 0]

\* !value
Falsy(v) == v.t = "undefined" \/ ~TruthyCell(v)

\* the bodies of the POST /api/log requests of the model: the JSON body of
\* a script (calories a number) or the body of the form (calories a text)
LogBodies ==
    [date : {Undefined, DateCell(LocalMidnight(2, tz))},
     time : {Undefined, TextCell(T_abc)},
     mealType : {Undefined, TextCell(T_Lunch)},
     description : {EmptyCell, TextCell(T_abc)},
     calories : {Undefined, NumCell(0), NumCell(250000), TextCell(T_Zero)}]

\* the profiles that POST /api/settings sends
SettingsBodies ==
    {ReferenceProfile, [ReferenceProfile EXCEPT !.weight = NumCell(80000)]}

\* valueInputOption USER_ENTERED: a text that reads as a number is stored
\* as that number
UserEntered(v) ==
    IF v.t = "text" /\ ~parseFloatText(v.s).nan /\ Len(v.s) > 0
    THEN [t |-> "num", n |-> parseFloatText(v.s), s |-> <<>>, at |-> 0]
    ELSE v

\* the row of the Log sheet that values.append writes for a body
LogRowOf(body) ==
    [date |-> IF body.date.t = "undefined" THEN EmptyCell ELSE body.date,
     calories |-> IF body.calories.t = "undefined" THEN EmptyCell
                  ELSE UserEntered(body.calories)]

\* what a service method did: whether it returned, whether its write
\* reached the sheet, how often refreshCalculations was called and whether
\* that call failed, whether it ran without a sheets client
Outcome(ok, wrote, refreshCalls, refreshFailed, nullClient) ==
    [ok |-> ok, wrote |-> wrote, refreshCalls |-> refreshCalls,
     refreshFailed |-> refreshFailed, nullClient |-> nullClient]

\* initialize(): with a local credentials file (local) the key is read and
\* auth.authorize() is awaited, and either may throw (~credsOk); without
\* one GoogleAuth is only constructed.  this.sheets is set at the end of
\* the try block; an error is rethrown and leaves it null
initialize(local, credsOk) ==
    IF local /\ ~credsOk THEN [ok |-> FALSE, sheets |-> FALSE]
    ELSE [ok |-> TRUE, sheets |-> TRUE]

\* a variant that starts listening without waiting for initialize()
startServer_ListenFirst(s, local, credsOk) ==
    [s EXCEPT !.phase = "listening", !.listened = TRUE,
              !.sheets = initialize(local, credsOk).sheets]

\* startServer: await initialize(), then app.listen; process.exit(1) when
\* initialize threw
startServer(s, local, credsOk) ==
    IF initialize(local, credsOk).ok
    THEN [s EXCEPT !.phase = "listening", !.listened = TRUE,
                   !.sheets = initialize(local, credsOk).sheets]
    ELSE [s EXCEPT !.phase = "exited", !.exitCode = 1]

\* refreshCalculations: values.update on Log!F1, then values.clear; refreshOk
\* says that both calls succeeded
refreshCalculations(sheets, refreshOk) ==
    IF ~sheets THEN Outcome(FALSE, FALSE, 1, TRUE, TRUE)
    ELSE Outcome(refreshOk, FALSE, 1, ~refreshOk, FALSE)

\* a variant that lets the error of refreshCalculations end the method
addLogEntry_RethrowRefresh(sheets, appendOk, refreshOk) ==
    IF ~sheets THEN Outcome(FALSE, FALSE, 0, FALSE, TRUE)
    ELSE IF ~appendOk THEN Outcome(FALSE, FALSE, 0, FALSE, FALSE)
    ELSE Outcome(refreshCalculations(sheets, refreshOk).ok, TRUE, 1,
                 ~refreshCalculations(sheets, refreshOk).ok, FALSE)

\* addLogEntry: values.append, then refreshCalculations in a try block of
\* its own, then return response.data
addLogEntry(sheets, appendOk, refreshOk) ==
    IF ~sheets THEN Outcome(FALSE, FALSE, 0, FALSE, TRUE)
    ELSE IF ~appendOk THEN Outcome(FALSE, FALSE, 0, FALSE, FALSE)
    ELSE Outcome(TRUE, TRUE, 1, ~refreshCalculations(sheets, refreshOk).ok, FALSE)

\* updatePersonalMetrics: values.update on Dashboard!H2:H7, then
\* refreshCalculations in a try block of its own, then return response.data
updatePersonalMetrics(sheets, updateOk, refreshOk) ==
    IF ~sheets THEN Outcome(FALSE, FALSE, 0, FALSE, TRUE)
    ELSE IF ~updateOk THEN Outcome(FALSE, FALSE, 0, FALSE, FALSE)
    ELSE Outcome(TRUE, TRUE, 1, ~refreshCalculations(sheets, refreshOk).ok, FALSE)

\* if (!date || !mealType || !description || !calories)
MissingRequired(body) ==
    \/ Falsy(body.date)
    \/ Falsy(body.mealType)
    \/ Falsy(body.description)
    \/ Falsy(body.calories)

\* the record of a handled request
Handle(s, route, body, status, called, o) ==
    [s EXCEPT !.route = route, !.body = body, !.status = status, !.called = called,
              !.wrote = o.wrote, !.refreshCalls = o.refreshCalls,
              !.refreshFailed = o.refreshFailed,
              !.nullClient = s.nullClient \/ o.nullClient]

\* app.post('/api/log'): 400 when a required field is missing, else
\* addLogEntry; 500 when it throws
postApiLog(s, body, appendOk, refreshOk) ==
    IF MissingRequired(body)
    THEN Handle(s, "POST /api/log", body, 400, FALSE,
                Outcome(FALSE, FALSE, 0, FALSE, FALSE))
    ELSE LET o == addLogEntry(s.sheets, appendOk, refreshOk)
         IN  Handle(s, "POST /api/log", body, IF o.ok THEN 200 ELSE 500, TRUE, o)

\* app.post('/api/settings')
postApiSettings(s, metrics, updateOk, refreshOk) ==
    LET o == updatePersonalMetrics(s.sheets, updateOk, refreshOk)
    IN  Handle(s, "POST /api/settings", <<>>, IF o.ok THEN 200 ELSE 500, TRUE, o)

\* app.post('/api/refresh')
postApiRefresh(s, refreshOk) ==
    LET o == refreshCalculations(s.sheets, refreshOk)
    IN  Handle(s, "POST /api/refresh", <<>>, IF o.ok THEN 200 ELSE 500, TRUE, o)

\* node server.js: startServer() runs once
StartServer ==
    \E local \in BOOLEAN, credsOk \in BOOLEAN :
        /\ server.phase = "starting"
        /\ server' = startServer(server, local, credsOk)
        /\ UNCHANGED <<sheetVars, sw, exec, dailyTotalsMap>>

\* a client sends POST /api/log to the listening server
PostApiLog ==
    \E body \in LogBodies, appendOk \in BOOLEAN, refreshOk \in BOOLEAN :
        /\ server.phase = "listening"
        /\ Len(log) < MaxLog
        /\ server' = postApiLog(server, body, appendOk, refreshOk)
        /\ log' = IF server'.wrote THEN Append(log, LogRowOf(body)) ELSE log
        /\ UNCHANGED <<tz, dashboard, logSheet, summarySheet, profile, summary,
                       tracker, goal, run, sw, exec, dailyTotalsMap>>

\* a client sends POST /api/settings
PostApiSettings ==
    \E metrics \in SettingsBodies, updateOk \in BOOLEAN, refreshOk \in BOOLEAN :
        /\ server.phase = "listening"
        /\ server' = postApiSettings(server, metrics, updateOk, refreshOk)
        /\ profile' = IF server'.wrote THEN metrics ELSE profile
        /\ UNCHANGED <<tz, dashboard, logSheet, summarySheet, log, summary,
                       tracker, goal, run, sw, exec, dailyTotalsMap>>

\* a client sends POST /api/refresh
PostApiRefresh ==
    \E refreshOk \in BOOLEAN :
        /\ server.phase = "listening"
        /\ server' = postApiRefresh(server, refreshOk)
        /\ UNCHANGED <<sheetVars, sw, exec, dailyTotalsMap>>

NextServer ==
    \/ StartServer
    \/ PostApiLog
    \/ PostApiSettings
    \/ PostApiRefresh

SpecServer == InitSetUp /\ [][NextServer]_vars

(***************************************************************************)
(* Properties                                                              *)
(***************************************************************************)
DataRows(rows) == {i \in 1..Len(rows) : rows[i].kind = "data"}

HeaderInPlace == Len(summary) >= 1 /\ summary[1] = HeaderRow

\* C1: idempotence of the full pipeline.  When a pipeline run has completed
\* on a Daily Summary sheet that has its header row, and refreshCaloryDiary
\* runs again on the same log and profile, the sheet after the second run
\* is the sheet after the first run.
C1_Idempotent ==
    [][(HeaderInPlace /\ run.ran /\ ~run.aborted /\ RefreshCaloryDiary)
          => summary' = summary]_vars

\* C2: uniqueness.  In a Daily Summary sheet that has its header row, no two
\* rows below the header have the same DateKey, the DateKey of a row being
\* what the lookup of the upsert computes for it.
C2_Unique ==
    HeaderInPlace =>
        \A i, j \in 2..Len(summary) :
            i # j => RowKey(summary[i], tz) # RowKey(summary[j], tz)

\* a valid log entry: a date and numeric calories
ValidEntry(row) == row.date.t = "date" /\ row.calories.t = "num"

\* the sum of the calories of the valid entries of rows[1..n] whose date is
\* on day key of the script's calendar
RECURSIVE SumFor(_, _, _)
SumFor(rows, n, key) ==
    IF n = 0 THEN 0
    ELSE SumFor(rows, n - 1, key)
         + (IF ValidEntry(rows[n]) /\ formatDate(rows[n].date.at, tz) = key
            THEN rows[n].calories.n.m ELSE 0)

\* C3: conservation.  After a completed pipeline run on a Daily Summary
\* sheet that has its header row, every record of the sheet has as total
\* the sum of the calories of the valid log entries that carry the DateKey
\* of the record.
C3_Conservation ==
    (HeaderInPlace /\ run.ran /\ ~run.aborted) =>
        \A i \in DataRows(summary) :
            summary[i].total =
                Number(SumFor(log, Len(log), RowKey(summary[i], tz)))

\* C4: profile-change propagation.  After the pipeline run triggered by the
\* change of a profile cell has completed on a Daily Summary sheet that has
\* its header row, every record of the sheet carries the new goal and the
\* status recomputed from it.
C4_Propagation ==
    [][(HeaderInPlace /\ OnEditProfile /\ ~run'.aborted) =>
          \A i \in DataRows(summary') :
              /\ summary'[i].limit = goal'.val
              /\ summary'[i].status =
                     StatusText(Remaining(goal'.val, summary'[i].total.m))]_vars

\* C5: an empty log is a successful no-op.  With the three sheets present, a
\* valid profile and no data row in the Log sheet, refreshCaloryDiary and
\* the profile branch of onEdit end without an error, leave the Daily
\* Summary sheet as it was and reach the refresh of the today view.
C5_EmptyLogNoOp ==
    [][((RefreshCaloryDiary \/ OnEditProfile)
          /\ dashboard /\ logSheet /\ summarySheet /\ Len(log) = 0 /\ goal'.ok)
          => (~run'.aborted /\ run'.today /\ summary' = summary)]_vars

\* C6: fatal errors are surfaced.  A handler whose pipeline run was ended by
\* an error reports a failure to its caller.
C6_FailureSurfaced ==
    (run.ran /\ run.aborted) => run.reported = "failure"

\* C7: no partial writes.  A pipeline run that is ended by an error leaves
\* the Daily Summary sheet as it was before the run.
C7_NoPartialWrites ==
    [][(run'.ran /\ run'.aborted) => summary' = summary]_vars

\* C8: uninitialized store.  While the Daily Summary sheet does not exist,
\* only setupDailySummarySheet creates it; every pipeline run ends with an
\* error, writes nothing and leaves the sheet missing, and the error is
\* that of upsertDailySummary whenever the goal and the totals of a
\* non-empty log were computed.
C8_NoAutoCreate ==
    [][~summarySheet =>
          /\ summarySheet' => setupDailySummarySheet
          /\ run'.ran =>
                /\ run'.aborted
                /\ summary' = summary
                /\ ~summarySheet'
                /\ (goal'.ok /\ logSheet /\ Len(log') > 0)
                       => run'.err = "Daily Summary sheet not found"]_vars

\* a pipeline run was stopped by upsertDailySummary for the missing sheet
C8_Witness ==
    ~summarySheet /\ run.ran /\ run.err = "Daily Summary sheet not found"

\* the constant that the BMR formula is to add for a gender text
ExpectedSexConstant(text) ==
    IF toLowerCase(text) \in {toLowerCase(T_Male), T_m} THEN 5 ELSE 0 - 161

\* C9: the sex constant of the BMR.  A computed goal is the one obtained
\* with +5 for Male or m and with -161 for Female or f, in any letter case.
C9_SexConstant ==
    (goal.ok /\ ~goal.val.nan) =>
        goal.val.m = 1000 * RoundGoal(
            Bmr4000(parseFloat(profile.weight), parseFloat(profile.height),
                    parseFloat(profile.age), ExpectedSexConstant(profile.gender.s)),
            ActivityOf(profile.activity).m, GoalOffsetOf(profile.goalOffset).m)

\* a strictly positive number
Positive(n) == ~n.nan /\ n.m > 0

\* C10: invalid profile rejection.  getMaxCaloriesFromDashboard returns a
\* goal exactly when weight, height, age and activity factor are strictly
\* positive numbers, and throws otherwise.
C10_InvalidRejected ==
    (dashboard /\ goal # NotComputed) =>
        (goal.ok <=> /\ Positive(parseFloat(profile.weight))
                     /\ Positive(parseFloat(profile.height))
                     /\ Positive(parseFloat(profile.age))
                     /\ Positive(ActivityOf(profile.activity)))

\* the numeric token of a label or of a plain value: the text before the
\* first space of a label, all of a plain value
NumericToken(cell) ==
    IF cellIncludesParen(cell) THEN parseFloatFirstToken(cell) ELSE parseFloat(cell)

\* C11: label parsing of the activity factor and of the goal offset.  A call
\* of getMaxCaloriesFromDashboard on an existing Dashboard throws when the
\* numeric token of either field does not parse; a goal that it returns is
\* a number, computed with the parsed tokens.
C11_LabelParsing ==
    (dashboard /\ goal # NotComputed) =>
        /\ (NumericToken(profile.activity).nan \/ NumericToken(profile.goalOffset).nan)
               => ~goal.ok
        /\ goal.ok => ~goal.val.nan

\* the totals that the aggregation loop computes for the data rows
TotalsOf(rows) == TotalsLoop(rows, 1, tz, <<>>)

\* the total of a DateKey in the totals, -1 when the key is absent
TotalAt(totals, key) ==
    IF HasKey(totals, key)
    THEN totals[CHOOSE i \in 1..Len(totals) : totals[i].key = key].total
    ELSE 0 - 1

\* the DateKeys that occur in the model
DayKeys == (0 - 1)..3

\* C12: invalid-entry tolerance.  When a row whose calories are the text
\* 'abc', or whose date is missing or is no date, is added to the log, the
\* pipeline run that follows fails only if it would have failed without the
\* row, and the total of every date other than that of the row is what it
\* is without the row.
C12_InvalidTolerated ==
    [][\A row \in LogRowInputs \cup DirtyRowInputs :
          ((OnEditLogAppend \/ OnEditDirtyRow) /\ log' = Append(log, row)
              /\ ~ValidEntry(row)) =>
              /\ run'.aborted => Pipeline(TRUE, profile, log, 0).aborted
              /\ \A key \in DayKeys :
                     \/ row.date.t = "date" /\ key = formatDate(row.date.at, tz)
                     \/ TotalAt(TotalsOf(log'), key) = TotalAt(TotalsOf(log), key)]_vars

\* a completed run on a log that has an invalid row and a valid one
C12_Witness ==
    /\ run.ran /\ ~run.aborted
    /\ Len(log) = 2 /\ ValidEntry(log[1]) /\ ~ValidEntry(log[2])
    /\ \E i \in DataRows(summary) : summary[i].total = log[1].calories.n

\* the DateKeys of the valid entries of the log
ValidKeys(rows) ==
    {formatDate(rows[i].date.at, tz) : i \in {j \in 1..Len(rows) : ValidEntry(rows[j])}}

\* C13: invalid entries are excluded from the aggregation.  The keys of the
\* totals computed from a non-empty log, in a pipeline run that completes,
\* are the DateKeys of its valid entries.
C13_InvalidExcluded ==
    [][((OnEditLogAppend \/ OnEditDirtyRow) /\ HeaderInPlace /\ ~run'.aborted) =>
          {k \in DayKeys : HasKey(TotalsOf(log'), k)} = ValidKeys(log')]_vars

T_Under456 == T_UnderGoal \o <<" ", "(", "+", "4", "5", "6", ")">>
T_Under0   == T_UnderGoal \o <<" ", "(", "+", "0", ")">>
T_Over244  == T_OverGoal \o <<" ", "(", "-", "2", "4", "4", ")">>
T_Over1    == T_OverGoal \o <<" ", "(", "-", "1", ")">>

\* C14: classification and display text.  Every record written by
\* upsertDailySummary has, with remaining = limit - total, the status
\* 'Under Goal (+remaining)' when remaining >= 0 and 'Over Goal (remaining)'
\* when remaining < 0; for the limit 2056 the totals 1600, 2056, 2057 and
\* 2300 give 'Under Goal (+456)', 'Under Goal (+0)', 'Over Goal (-1)' and
\* 'Over Goal (-244)'.
C14_StatusText ==
    \A i \in DataRows(summary) :
        LET row == summary[i]
            remaining == Number(row.limit.m - row.total.m)
        IN  /\ ~row.limit.nan /\ ~row.total.nan
            /\ remaining.m >= 0 =>
                   row.status = T_UnderGoal \o <<" ", "(", "+">>
                                    \o NumberText(remaining) \o <<")">>
            /\ remaining.m < 0 =>
                   row.status = T_OverGoal \o <<" ", "(">>
                                    \o NumberText(remaining) \o <<")">>
            /\ row.limit.m = 2056000 =>
                   /\ row.total.m = 1600000 => row.status = T_Under456
                   /\ row.total.m = 2056000 => row.status = T_Under0
                   /\ row.total.m = 2057000 => row.status = T_Over1
                   /\ row.total.m = 2300000 => row.status = T_Over244

\* a record at the boundary: its total is its limit, remaining 0
C14_Witness ==
    \E i \in DataRows(summary) :
        /\ summary[i].limit.m = summary[i].total.m
        /\ summary[i].status = T_Under0

\* C17: today projection.  After a pipeline run that completed, the tracker
\* cells are those of a record whose DateKey is today's when there is one;
\* otherwise they show the total 0, the current goal as limit, and the
\* status computed from remaining = goal - 0.
C17_TodayProjection ==
    (HeaderInPlace /\ run.ran /\ ~run.aborted) =>
        LET hits == {i \in DataRows(summary) :
                        RowKey(summary[i], tz) = formatDate(Now, tz)}
        IN  IF hits # {}
            THEN \E i \in hits :
                    /\ tracker.date = summary[i].date
                    /\ tracker.total = summary[i].total
                    /\ tracker.limit = summary[i].limit
                    /\ tracker.status = summary[i].status
            ELSE /\ tracker.total = Number(0)
                 /\ tracker.limit = goal.val
                 /\ tracker.status = StatusText(Remaining(goal.val, 0))

\* C15: the goal of the reference profile.  For Male, 70 kg, 175 cm, 30
\* years, the activity factor 1.55 and the goal offset -500, each given as a
\* number or as its dropdown label, getMaxCaloriesFromDashboard returns
\* 2056; the BMR is 1648.75 and the TDEE 2555.5625.
C15_ReferenceGoal ==
    (/\ dashboard /\ goal # NotComputed
     /\ profile.gender = TextCell(T_Male)
     /\ profile.weight = NumCell(70000)
     /\ profile.height = NumCell(175000)
     /\ profile.age = NumCell(30000)
     /\ profile.activity \in {NumCell(1550), TextCell(T_Moderate)}
     /\ profile.goalOffset \in {NumCell(0 - 500000), TextCell(T_WeightLoss)}) =>
        LET bmr4k == Bmr4000(parseFloat(profile.weight), parseFloat(profile.height),
                             parseFloat(profile.age), SexConstant(profile.gender))
        IN  /\ goal = Return(Number(2056000))
            /\ bmr4k = 6595000
            /\ (bmr4k \div 200) * ActivityOf(profile.activity).m = 2 * 25555625

\* the goal of the reference profile given with plain numbers
C15_Witness ==
    /\ goal = Return(Number(2056000))
    /\ profile.activity = NumCell(1550)
    /\ profile.goalOffset = NumCell(0 - 500000)

\* C16: unclassified signals trigger a full refresh.  An edit event that is
\* neither an edit of the Log sheet nor of a profile cell runs the pipeline
\* of the profile branch: goal, totals, upsert and, unless an error ends
\* the run, the refresh of the today view.
C16_OtherEditsRefresh ==
    [][OnEditOther => (run'.ran /\ (run'.aborted \/ run'.today))]_vars

\* C18: offline entries are queued and synced.  A food entry submitted
\* while the network is down is kept by the service worker in its dynamic
\* cache until it has been sent to the server.
C18_OfflineQueued ==
    \A e \in sw.offline : e \in sw.delivered \/ e \in sw.dynamicCache

C20_OfflineViewing ==
    [][\A req \in GetRequests :
          (FetchGet(req) /\ ~sw.online /\ IsDynamicPage(req.path)
              /\ req.path \in sw.pages) => sw'.last.source = "cache"]_vars

\* C22: DateKey round trip through the store.  The date stored for a DateKey
\* by upsertDailySummary, read back and formatted in the script time zone as
\* the lookup and the today view format it, is that DateKey again.
C22_DateKeyRoundTrip ==
    \A i \in DataRows(summary) :
        newDateOfKey(RowKey(summary[i], tz)) = summary[i].date

\* C23: the header row is never a data row.  In an existing Daily Summary
\* sheet, with or without a header, the records written by
\* upsertDailySummary are in rows 2 and below, the rows that the lookup of
\* the next upsert examines.
C23_RecordsBelowHeader ==
    \A i \in DataRows(summary) : i >= 2

\* C25: the frame of the upsert.  A pipeline run removes no row of the Daily
\* Summary sheet, and every record whose DateKey is not a key of the totals
\* of the run is after the run what it was before.
C25_UpsertFrame ==
    [][run'.ran =>
          /\ Len(summary') >= Len(summary)
          /\ \A i \in DataRows(summary) :
                 ~HasKey(TotalsOf(log'), RowKey(summary[i], tz))
                     => summary'[i] = summary[i]]_vars

\* a completed run on a sheet that holds a record of a date that no log
\* entry carries any more, next to a record of a date of the log
C25_Witness ==
    /\ run.ran /\ ~run.aborted /\ HeaderInPlace
    /\ \E i, j \in DataRows(summary) :
          /\ ~HasKey(TotalsOf(log), RowKey(summary[i], tz))
          /\ HasKey(TotalsOf(log), RowKey(summary[j], tz))

\* C26: update in place.  A row that a pipeline run changes held a record
\* with the DateKey that is written to it, below the header; every other
\* row that existed keeps its content and its position, and the records
\* that the run adds follow the last row that existed.
C26_InPlace ==
    [][run'.ran =>
          /\ Len(summary') >= Len(summary)
          /\ \A i \in 1..Len(summary) :
                 summary'[i] # summary[i] =>
                     /\ i >= 2
                     /\ summary[i].kind = "data"
                     /\ summary'[i].kind = "data"
                     /\ newDateOfKey(RowKey(summary[i], tz)) = summary'[i].date]_vars

\* a run that changed the total of an existing record and added no row
C26_Witness ==
    /\ run.ran /\ ~run.aborted /\ HeaderInPlace
    /\ Len(summary) = 2 /\ Len(log) = 2
    /\ summary[2].total.m = log[1].calories.n.m + log[2].calories.n.m

\* C27: the placeholder is not persisted.  A record dated today is added to
\* the Daily Summary sheet by a run only when the totals of the run have
\* today's DateKey, that is when the log has an entry of today; a run that
\* shows the placeholder leaves the sheet as the upsert left it.
C27_PlaceholderNotPersisted ==
    [][(run'.ran /\ ~run'.aborted) =>
          /\ summary' = upsertDailySummary(summarySheet, summary, tz,
                             computeDailyTotalsFromLog(logSheet, log', tz).val,
                             goal'.val, 0).rows
          /\ \A i \in DataRows(summary') :
                 (/\ summary'[i].date = newDateOfKey(formatDate(Now, tz))
                  /\ (i > Len(summary) \/ summary[i] # summary'[i]))
                     => HasKey(TotalsOf(log'), formatDate(Now, tz))]_vars

\* a completed run that shows the placeholder: the tracker has the total 0
\* and the date of now, and the sheet has records, none of them dated today
C27_Witness ==
    /\ run.ran /\ ~run.aborted /\ HeaderInPlace
    /\ tracker.date = Now /\ tracker.total = Number(0)
    /\ DataRows(summary) # {}
    /\ \A i \in DataRows(summary) :
          summary[i].date # newDateOfKey(formatDate(Now, tz))

\* bmr * activityMultiplier + goalOffset rounded to the nearest integer,
\* a tie away from zero; bmr4k in 1/4000, act and off in thousandths
RoundHalfAwayFromZero(bmr4k, act, off) ==
    LET bi   == bmr4k \div 4000
        bf   == bmr4k % 4000
        base == ((bi * act) \div 1000) + (off \div 1000)
        n    == 4000 * ((bi * act) % 1000) + bf * act + 4000 * (off % 1000)
    IN  IF base + (n \div 4000000) >= 0
        THEN base + ((n + 2000000) \div 4000000)
        ELSE base - ((2000000 - n) \div 4000000)

\* C28: the rounding rule.  A goal that getMaxCaloriesFromDashboard returns
\* is TDEE + goalOffset rounded to the nearest integer, a tie rounded away
\* from zero, for positive and for negative values.
C28_HalfAwayFromZero ==
    (goal.ok /\ ~goal.val.nan) =>
        goal.val.m = 1000 * RoundHalfAwayFromZero(
            Bmr4000(parseFloat(profile.weight), parseFloat(profile.height),
                    parseFloat(profile.age), SexConstant(profile.gender)),
            ActivityOf(profile.activity).m, GoalOffsetOf(profile.goalOffset).m)

\* C30: the status annotation is derived state.  After a pipeline run that
\* completed, every Daily Summary record and the tracker of the Dashboard
\* have the colour green exactly when limit - total >= 0 and red otherwise,
\* the placeholder of a negative goal included, and the colour agrees with
\* the status text.
C30_ColourDerived ==
    (HeaderInPlace /\ run.ran /\ ~run.aborted) =>
        /\ \A i \in DataRows(summary) :
               /\ summary[i].color =
                      StatusColor(Remaining(summary[i].limit, summary[i].total.m))
               /\ summary[i].color = "green"
                      <=> includes(summary[i].status, T_UnderGoal)
        /\ tracker.color = StatusColor(Remaining(tracker.limit, tracker.total.m))
        /\ tracker.color = "green" <=> includes(tracker.status, T_UnderGoal)

\* the rows in the order perm
Permuted(rows, perm) == [i \in 1..Len(rows) |-> rows[perm[i]]]

\* the totals as a map: the set of its entries, whatever their order
AsMap(totals) == {totals[i] : i \in 1..Len(totals)}

\* the rows of a DateKey are added to one entry of the totals, and to no
\* other: every DateKey of a row has exactly one entry, whatever the time
\* of day of the rows, and every entry has the DateKey of a row
GroupedByDateKey ==
    /\ \A i \in 1..Len(log) :
           Cardinality({n \in 1..Len(dailyTotalsMap) :
               dailyTotalsMap[n].key = formatDate(log[i].date.at, tz)}) = 1
    /\ \A n \in 1..Len(dailyTotalsMap) :
           \E i \in 1..Len(log) :
               dailyTotalsMap[n].key = formatDate(log[i].date.at, tz)

\* C29: order independence of the aggregation.  For every permutation of
\* the data rows of the log computeDailyTotalsFromLog returns the same
\* DateKey -> total map, and two rows are added to the same total exactly
\* when their dates format to the same DateKey, whatever their time of day.
C29_OrderIndependent ==
    /\ GroupedByDateKey
    /\ \A perm \in Permutations(1..Len(log)) :
           AsMap(TotalsLoop64(Permuted(log, perm), 1, tz, <<>>)) = AsMap(dailyTotalsMap)

\* C24: uniqueness under interleaving.  When the two onEdit executions of
\* two log additions for one DateKey that has no record yet have both read
\* the Daily Summary before either appended, and both have ended, the sheet
\* has exactly one record of that DateKey and its total is the sum of the
\* entries of that date.
C24_UniqueUnderInterleaving ==
    (\A p \in Executions :
        /\ Pc(p) = "done"
        /\ Len(exec[p].existingData) >= 1
        /\ ExistingRow(exec[p].existingData, tz, formatDate(Now, tz)) = 0)
    => /\ Cardinality({i \in DataRows(summary) :
                          RowKey(summary[i], tz) = formatDate(Now, tz)}) = 1
       /\ \A i \in DataRows(summary) :
              RowKey(summary[i], tz) = formatDate(Now, tz) =>
                  summary[i].total.m = TotalAt(TotalsOf(log), formatDate(Now, tz))

\* C21: pipeline step ordering.  In every run started by a Log edit, a
\* profile edit, doGet(refresh) or the menu refresh: the goal is the one
\* computed from the profile at the start of the run; when the goal or the
\* aggregation fails the run is aborted, and an aborted run leaves the
\* Daily Summary and the tracker as they were; a run that completes has
\* written, for every DateKey of the full current log, a record with the
\* total of all rows of that DateKey and with that goal; and its tracker is
\* the today projection of the Daily Summary as the upsert left it.
C21_StepOrder ==
    [][run'.ran =>
          /\ \A g \in {getMaxCaloriesFromDashboard(dashboard, profile')},
                t \in {computeDailyTotalsFromLog(logSheet, log', tz)} :
                 /\ goal' = g
                 /\ (~g.ok \/ ~t.ok) => run'.aborted
                 /\ ~run'.aborted =>
                        \A k \in DayKeys :
                            HasKey(TotalsOf(log'), k) =>
                                \E i \in 1..Len(summary') :
                                    /\ summary'[i].kind = "data"
                                    /\ summary'[i].date = newDateOfKey(k)
                                    /\ summary'[i].total = Number(TotalAt(TotalsOf(log'), k))
                                    /\ summary'[i].limit = g.val
          /\ run'.aborted => (summary' = summary /\ tracker' = tracker)
          /\ ~run'.aborted =>
                 tracker' = updateDashboardTodayView(dashboard, summarySheet', summary',
                                                     profile', tz, Now, tracker)]_vars

\* a run of doGet(refresh) that completed on a log of two meals of today:
\* the record of today has their sum and the tracker shows that record
C21_Witness ==
    /\ run.ran /\ ~run.aborted /\ run.reported = "success"
    /\ HeaderInPlace /\ Len(log) = 2
    /\ \E i \in DataRows(summary) :
          /\ summary[i].total = Number(2100000)
          /\ tracker.total = summary[i].total
          /\ tracker.date = summary[i].date

\* C35: replay of queued entries.  In one run of syncFoodEntries (the steps
\* that leave a sync as the last event and the network as it was) a request
\* leaves the queue only when its fetch has succeeded, a request whose fetch
\* failed stays queued, and every queued request is attempted, whatever the
\* outcome of the others.
C35_ReplayQueued ==
    [][(sw'.last.method = "SYNC" /\ sw'.online = sw.online) =>
          /\ \A e \in sw.dynamicCache \ sw'.dynamicCache :
                 e \in sw'.delivered /\ e \in sw'.attempted
          /\ \A e \in sw.dynamicCache :
                 e \notin sw'.delivered => e \in sw'.dynamicCache
          /\ sw'.attempted = sw.dynamicCache
          /\ sw'.dynamicCache \subseteq sw.dynamicCache]_vars

\* a sync in which the fetch of the first request failed and the one of the
\* second succeeded: the first is still queued, the second was delivered
C35_Witness ==
    /\ sw.last.method = "SYNC"
    /\ sw.dynamicCache = {1}
    /\ sw.attempted = {1, 2}
    /\ 2 \in sw.delivered /\ 1 \notin sw.delivered

\* C34: cache cleanup on activation.  Once the activate handler has
\* completed, no cache with a name other than the current static and
\* dynamic caches remains: the caches of the previous version and every
\* other cache were deleted, and the current static cache kept what the
\* install stored.
C34_OnlyCurrentCaches ==
    sw.active =>
        /\ sw.otherCaches = {}
        /\ sw.last.method = "ACTIVATE" =>
               \A u \in STATIC_ASSETS :
                   \E c \in sw.staticCache : c.origin = u.origin /\ c.path = u.path

\* the worker was activated where the previous version had left its dynamic
\* cache, and that cache was deleted
C34_Witness ==
    /\ sw.active
    /\ "calorie-diary-dynamic-v1.0.0" \in sw.deleted
    /\ "calorie-diary-dynamic-v1.0.0" \notin sw.otherCaches
    /\ sw.staticCache # {}

\* a field that the request carries: it is in the body and is not empty
Carried(v) == v.t # "undefined" /\ v # EmptyCell

\* C31: a POST /api/log request that lacks one of date, mealType,
\* description and calories is answered with status 400 and leaves the log
\* as it was; a request that carries all four, the number 0 as calories
\* included, is passed to addLogEntry and, when that succeeds, appends
\* exactly one row
C31_Validation ==
    [][server'.route = "POST /api/log" =>
         LET b == server'.body
             all == /\ Carried(b.date)
                    /\ Carried(b.mealType)
                    /\ Carried(b.description)
                    /\ Carried(b.calories)
         IN  /\ ~all => server'.status = 400 /\ ~server'.called /\ log' = log
             /\ all => /\ server'.called
                       /\ server'.status # 400
                       /\ server'.status = 200 => log' = Append(log, LogRowOf(b))
                       /\ server'.status = 500 => log' = log]_vars

\* C32: in addLogEntry and updatePersonalMetrics a write that succeeded
\* survives a failed refresh: the request is answered as a success and the
\* written row or profile is in the sheet; when the write itself fails the
\* error is rethrown (status 500), nothing is written and
\* refreshCalculations is not called
C32_AppendSurvivesRefresh ==
    [][(server'.route \in {"POST /api/log", "POST /api/settings"} /\ server'.called) =>
         /\ (server'.wrote /\ server'.refreshFailed) =>
                /\ server'.status = 200
                /\ server'.route = "POST /api/log" =>
                       log' = Append(log, LogRowOf(server'.body))
                /\ server'.route = "POST /api/settings" =>
                       profile' \in SettingsBodies
         /\ ~server'.wrote =>
                /\ server'.status = 500
                /\ server'.refreshCalls = 0
                /\ log' = log
                /\ profile' = profile]_vars

\* a log entry was appended and answered with 200 although the refresh
\* after it failed, the profile having been rewritten before
C32_Witness ==
    /\ server.route = "POST /api/log"
    /\ server.status = 200
    /\ server.wrote
    /\ server.refreshFailed
    /\ Len(log) = 1
    /\ log[1] = LogRowOf(server.body)
    /\ profile.weight = NumCell(80000)

\* C33: the server listens only after initialize() has succeeded, so that
\* a listening server has its sheets client; when initialize fails the
\* process has exited with code 1 without ever listening; and no route
\* handler has run without the sheets client
C33_StartupOrdering ==
    /\ server.listened => server.sheets
    /\ server.phase = "exited" => server.exitCode = 1 /\ ~server.listened
    /\ server.route # "none" => server.listened /\ server.sheets
    /\ ~server.nullClient

\* the server listens after a successful initialize() and a route handler
\* has called the sheets client and written through it
C33_Witness ==
    /\ server.phase = "listening"
    /\ server.sheets
    /\ server.called
    /\ server.wrote

====
